---- MODULE Spec2Model ----
(***************************************************************************)
(* Assessment timetabling solver harness: the scheduling problem, the      *)
(* constraint encoders of conditioning/constraints.py as each backend sees *)
(* them, the solver adapters of solvers/*.py and the solver factory.       *)
(*                                                                         *)
(* A run is: a problem value exists, an adapter is constructed for it      *)
(* (directly or through SolverFactory.get_solver), and solve() is called.  *)
(* A backend's search is a choice among the values its model admits.       *)
(***************************************************************************)
EXTENDS Integers, Sequences, FiniteSets, TLC

\* ------------------------------------------------------------------------
\* Bounds of the problem family explored
\* ------------------------------------------------------------------------
MaxExams == 4
MaxCells == 4
MaxCap == 2
MaxAssignments == 64
MaxCalls == 2
MaxAgainExams == 2
MaxAgainCells == 3
MaxMoves == 3
MaxId == 2
MaxTime == 2
MaxEvalAssignments == 16
MaxQualityCells == 2
MaxLines == 2
MaxFiles == 2
MaxElapsed == 1

VARIABLES
    problem,            \* SchedulingProblem: rooms, time_slots, exams, total_students
    pc,                 \* "new" -> "built" -> "done"
    solver,             \* registry key of the adapter class constructed, or "none"
    active_constraints, \* the argument given to the adapter's __init__
    constraints,        \* self.constraints: the registered constraint names
    result,             \* what solve() / get_solver() produced
    backend_raised,     \* the backend raised an exception inside solve()
    request,            \* the SolverFactory.get_solver call, if the adapter came from one
    search,             \* LocalSearchSolver, TabuSearchSolver: current_solution,
                        \* current_score, best_solution, best_score
    tabu_list,          \* TabuSearchSolver: self.tabu_list
    calls,              \* how many solve() calls on this adapter have ended
    model_rows,         \* how many solve() calls have stated their rows on the
                        \* backend object made by __init__ (self.model, self.solver)
    file,               \* ProblemFileReader.read_file: the file given
    parsed,             \* ProblemFileReader.read_file: what it produced
    evaluation,         \* ComparisonController: the solutions under comparison,
                        \* their metrics and their overall scores
    report,             \* SchedulerController run over a directory: the results it
                        \* collects, the status it shows, the comparison table
    loop                \* LocalSearchSolver.solve: the attempts begun, the passes of
                        \* the inner loop begun in this attempt, the deadline passed

\* what the solver adapters never touch
desk == <<file, parsed, evaluation, report>>
io == <<desk, loop>>

vars == <<problem, pc, solver, active_constraints, constraints, result, backend_raised,
          request, search, tabu_list, calls, model_rows, file, parsed, evaluation,
          report, loop>>

\* ------------------------------------------------------------------------
\* Domain model (utilities/typehints.py)
\* ------------------------------------------------------------------------
number_of_exams == Cardinality(DOMAIN problem.exams)
number_of_rooms == Cardinality(DOMAIN problem.rooms)
number_of_slots == problem.time_slots
Exams == 0..(number_of_exams - 1)
Rooms == 0..(number_of_rooms - 1)
Slots == 0..(number_of_slots - 1)
Students == 0..(problem.total_students - 1)

get_student_count(e) == Cardinality(problem.exams[e])
capacity(r) == problem.rooms[r]

RECURSIVE SumOver(_, _)
SumOver(S, f) ==
    IF S = {} THEN 0
    ELSE LET x == CHOOSE y \in S : TRUE IN f[x] + SumOver(S \ {x}, f)

Abs(x) == IF x < 0 THEN -x ELSE x

\* No value: Python's None, where a list of constraint names is expected (a
\* one-element list that is no list of names, so that it compares with lists)
None == <<"None">>

\* The five names of the default active set and the twelve catalog names
DefaultConstraints ==
    <<"single_assignment", "room_conflicts", "room_capacity",
      "student_spacing", "max_exams_per_slot">>

constraint_map ==
    {"single_assignment", "room_conflicts", "room_capacity", "student_spacing",
     "max_exams_per_slot", "morning_sessions", "exam_group_size",
     "department_grouping", "room_balancing", "invigilator_assignment",
     "break_period", "invigilator_break"}

Has(name) == \E i \in DOMAIN constraints : constraints[i] = name

\* A candidate valuation of the decision variables: exam -> (room, timeSlot)
Valuations(roomDom, slotDom) == [Exams -> [room : roomDom, timeSlot : slotDom]]

\* The solution list an adapter returns: one record per exam in id order
SolutionOf(a) ==
    [i \in 1..number_of_exams |->
        [examId |-> i - 1, room |-> a[i - 1].room, timeSlot |-> a[i - 1].timeSlot]]

\* min/max slot used: the span objective
Span(a) ==
    LET ts == {a[e].timeSlot : e \in Exams}
        hi == CHOOSE t \in ts : \A u \in ts : u <= t
        lo == CHOOSE t \in ts : \A u \in ts : u >= t
    IN  hi - lo

\* exams of one student, and pairs of distinct exams sharing a student
student_exams(s) == {e \in Exams : s \in problem.exams[e]}
SharedPairs ==
    {p \in Exams \X Exams :
        p[1] < p[2] /\ \E s \in Students : s \in problem.exams[p[1]] /\ s \in problem.exams[p[2]]}

\* ------------------------------------------------------------------------
\* Constraint encoders (conditioning/constraints.py).  Each is the set of
\* assertions the encoder adds, read as a predicate on a valuation a of the
\* decision variables; auxiliary indicator variables the encoder creates are
\* existentially quantified, as they are free for the backend to choose.
\* ------------------------------------------------------------------------
max_concurrent == 3

\* -- Z3 ------------------------------------------------------------------
\* (a variant that forgets the upper bound of the room variable)
SingleAssignmentConstraint_apply_z3_NoRoomUpperBound(a) ==
    \A e \in Exams :
        /\ a[e].room >= 0
        /\ a[e].timeSlot >= 0
        /\ a[e].timeSlot < number_of_slots

SingleAssignmentConstraint_apply_z3(a) ==
    \A e \in Exams :
        /\ a[e].room >= 0
        /\ a[e].room < number_of_rooms
        /\ a[e].timeSlot >= 0
        /\ a[e].timeSlot < number_of_slots

RoomConflictConstraint_apply_z3(a) ==
    \A e1 \in Exams : \A e2 \in (e1 + 1)..(number_of_exams - 1) :
        (a[e1].room = a[e2].room /\ a[e1].timeSlot = a[e2].timeSlot) => (e1 = e2)

RoomCapacityConstraint_apply_z3(a) ==
    \A e \in Exams : \A r \in Rooms :
        (a[e].room = r) => (get_student_count(e) <= capacity(r))

NoConsecutiveSlotsConstraint_apply_z3(a) ==
    \A s \in Students : \A exam1 \in student_exams(s) : \A exam2 \in student_exams(s) :
        exam1 < exam2 =>
            /\ a[exam1].timeSlot # a[exam2].timeSlot
            /\ a[exam1].timeSlot # a[exam2].timeSlot + 1
            /\ a[exam1].timeSlot # a[exam2].timeSlot - 1

MaxExamsPerSlotConstraint_apply_z3(a) ==
    \A t \in Slots :
        Cardinality({e \in Exams : a[e].timeSlot = t}) <= max_concurrent

\* -- OR-Tools CP-SAT (OnlyEnforceIf(b) is the implication b => constraint) -
SingleAssignmentConstraint_apply_ortools(a) == TRUE

RoomConflictConstraint_apply_ortools(a) ==
    \A e1 \in Exams : \A e2 \in (e1 + 1)..(number_of_exams - 1) :
        \E b_same_time \in BOOLEAN : \E b_diff_room \in BOOLEAN :
            /\ b_same_time => (a[e1].timeSlot = a[e2].timeSlot)
            /\ (~b_same_time) => (a[e1].timeSlot # a[e2].timeSlot)
            /\ b_diff_room => (a[e1].room # a[e2].room)
            /\ b_same_time => b_diff_room

RoomCapacityConstraint_apply_ortools(a) ==
    \A t \in Slots : \A r \in Rooms :
        \E exam_in_room_time \in [Exams -> {0, 1}] :
            /\ \A e \in Exams :
                /\ (exam_in_room_time[e] = 1) => (a[e].room = r)
                /\ (exam_in_room_time[e] = 1) => (a[e].timeSlot = t)
            /\ SumOver(Exams, [e \in Exams |-> get_student_count(e) * exam_in_room_time[e]])
                    <= capacity(r)

NoConsecutiveSlotsConstraint_apply_ortools(a) ==
    \A s \in Students : \A exam1 \in student_exams(s) : \A exam2 \in student_exams(s) :
        exam1 < exam2 =>
            /\ a[exam1].timeSlot # a[exam2].timeSlot
            /\ a[exam1].timeSlot # a[exam2].timeSlot + 1
            /\ a[exam1].timeSlot # a[exam2].timeSlot - 1

MaxExamsPerSlotConstraint_apply_ortools(a) ==
    \A t \in Slots :
        \E is_in_slot \in [Exams -> {0, 1}] :
            /\ \A e \in Exams :
                /\ (is_in_slot[e] = 1) => (a[e].timeSlot = t)
                /\ (is_in_slot[e] = 0) => (a[e].timeSlot # t)
            /\ SumOver(Exams, is_in_slot) <= max_concurrent

\* -- Gurobi (big-M linkages, M = number_of_slots + 1) ----------------------
BigM == number_of_slots + 1

SingleAssignmentConstraint_apply_gurobi(a) == TRUE

\* the four rows of one pair of exams that carry an indicator
RoomConflictConstraint_gurobi_linked(a, e1, e2, same_time, same_room) ==
    /\ a[e1].timeSlot - a[e2].timeSlot <= BigM * (1 - same_time)
    /\ a[e2].timeSlot - a[e1].timeSlot <= BigM * (1 - same_time)
    /\ a[e1].room - a[e2].room <= BigM * (1 - same_room)
    /\ a[e2].room - a[e1].room <= BigM * (1 - same_room)

RoomConflictConstraint_apply_gurobi(a) ==
    \A e1 \in Exams : \A e2 \in (e1 + 1)..(number_of_exams - 1) :
        \E same_time \in {0, 1} : \E same_room \in {0, 1} :
            /\ RoomConflictConstraint_gurobi_linked(a, e1, e2, same_time, same_room)
            /\ same_time + same_room <= 1

\* the two rows of one exam, room and slot that carry an indicator
RoomCapacityConstraint_gurobi_linked(a, t, r, e, exam_in_room) ==
    /\ a[e].timeSlot - t <= BigM * (1 - exam_in_room)
    /\ a[e].room - r <= BigM * (1 - exam_in_room)

RoomCapacityConstraint_apply_gurobi(a) ==
    \A t \in Slots : \A r \in Rooms :
        \E exam_in_room \in [Exams -> {0, 1}] :
            /\ \A e \in Exams :
                RoomCapacityConstraint_gurobi_linked(a, t, r, e, exam_in_room[e])
            /\ SumOver(Exams, [e \in Exams |-> get_student_count(e) * exam_in_room[e]])
                    <= capacity(r)

NoConsecutiveSlotsConstraint_apply_gurobi(a) ==
    \A s \in Students : \A exam1 \in student_exams(s) : \A exam2 \in student_exams(s) :
        exam1 < exam2 =>
            \E not_same \in {0, 1} : \E not_consecutive \in {0, 1} :
                /\ a[exam1].timeSlot - a[exam2].timeSlot <= -1 + BigM * not_same
                /\ a[exam2].timeSlot - a[exam1].timeSlot <= -1 + BigM * (1 - not_same)
                /\ a[exam1].timeSlot - a[exam2].timeSlot <= -2 + BigM * not_consecutive
                /\ a[exam2].timeSlot - a[exam1].timeSlot <= -2 + BigM * (1 - not_consecutive)

MaxExamsPerSlotConstraint_apply_gurobi(a) ==
    \A t \in Slots :
        \E is_in_slot \in [Exams -> {0, 1}] :
            /\ \A e \in Exams :
                /\ a[e].timeSlot - t <= BigM * (1 - is_in_slot[e])
                /\ t - a[e].timeSlot <= BigM * (1 - is_in_slot[e])
            /\ SumOver(Exams, is_in_slot) <= max_concurrent

\* -- dispatch: constraint.apply_<backend>(...) for a registered name ------
\* (the five hard constraints; the lists explored name no optional constraint)
apply_z3(name, a) ==
    CASE name = "single_assignment"  -> SingleAssignmentConstraint_apply_z3(a)
      [] name = "room_conflicts"     -> RoomConflictConstraint_apply_z3(a)
      [] name = "room_capacity"      -> RoomCapacityConstraint_apply_z3(a)
      [] name = "student_spacing"    -> NoConsecutiveSlotsConstraint_apply_z3(a)
      [] name = "max_exams_per_slot" -> MaxExamsPerSlotConstraint_apply_z3(a)

apply_ortools(name, a) ==
    CASE name = "single_assignment"  -> SingleAssignmentConstraint_apply_ortools(a)
      [] name = "room_conflicts"     -> RoomConflictConstraint_apply_ortools(a)
      [] name = "room_capacity"      -> RoomCapacityConstraint_apply_ortools(a)
      [] name = "student_spacing"    -> NoConsecutiveSlotsConstraint_apply_ortools(a)
      [] name = "max_exams_per_slot" -> MaxExamsPerSlotConstraint_apply_ortools(a)

apply_gurobi(name, a) ==
    CASE name = "single_assignment"  -> SingleAssignmentConstraint_apply_gurobi(a)
      [] name = "room_conflicts"     -> RoomConflictConstraint_apply_gurobi(a)
      [] name = "room_capacity"      -> RoomCapacityConstraint_apply_gurobi(a)
      [] name = "student_spacing"    -> NoConsecutiveSlotsConstraint_apply_gurobi(a)
      [] name = "max_exams_per_slot" -> MaxExamsPerSlotConstraint_apply_gurobi(a)

\* ------------------------------------------------------------------------
\* Adapter construction: the registration loop every adapter's __init__ has
\* ------------------------------------------------------------------------
\* "if active_constraints is None: <the five defaults>"; then only names that
\* are keys of constraint_map are appended to self.constraints
RegisterConstraints(ac) ==
    LET requested == IF ac = None THEN DefaultConstraints ELSE ac
    IN  SelectSeq(requested, LAMBDA name : name \in constraint_map)

\* float('inf'): above every penalty a solution of the explored sizes can get
inf == 1000000

\* (a solution that is None is written as the empty list)
NoSearch ==
    [current_solution |-> <<>>, current_score |-> inf,
     best_solution |-> <<>>, best_score |-> inf]

Pending == [kind |-> "pending", solution |-> <<>>, error |-> ""]
Returned(sol) == [kind |-> "solution", solution |-> sol, error |-> ""]
ReturnedNone == [kind |-> "none", solution |-> <<>>, error |-> ""]
Raised(exc) == [kind |-> "raised", solution |-> <<>>, error |-> exc]

\* lists of constraint names a caller passes (None: the argument is omitted)
RequestedLists ==
    { None,
      <<>>,
      DefaultConstraints,
      <<"single_assignment">>,
      <<"single_assignment", "room_capacity">>,
      <<"room_conflicts", "student_spacing">>,
      <<"single_assignment", "room_conflicts", "exam_clustering">> }

Adapter_init(name, ac) ==
    /\ pc = "new"
    /\ solver' = name
    /\ active_constraints' = ac
    /\ constraints' = RegisterConstraints(ac)
    /\ pc' = "built"
    /\ UNCHANGED <<problem, result, backend_raised, request, search,
                   tabu_list, calls, model_rows, io>>

ZThreeSolver_init == \E ac \in RequestedLists : Adapter_init("z3", ac)
ORToolsSolver_init == \E ac \in RequestedLists : Adapter_init("ortools", ac)
GurobiSolver_init == \E ac \in RequestedLists : Adapter_init("gurobi", ac)

\* ------------------------------------------------------------------------
\* SolverFactory (factories/solver_factory.py)
\* ------------------------------------------------------------------------
\* the keys of SolverFactory.solvers
SolverFactory_solvers == {"z3", "ortools", "gurobi", "cbc"}

\* names a caller asks for: the eight adapters and one that is none of them
RequestedNames ==
    {"z3", "ortools", "gurobi", "cbc", "scip", "tabu", "deap", "local", "minizinc"}

NoRequest == [name |-> "", passed |-> FALSE, active_constraints |-> None]

\* get_solver(name, problem) is a static method of two parameters.  passed:
\* the caller gives a third positional argument (as the controller does), which
\* Python refuses with TypeError before the body runs.  Otherwise the class is
\* looked up and constructed as solver_class(problem).
SolverFactory_get_solver ==
    /\ pc = "new"
    /\ \E name \in RequestedNames : \E passed \in BOOLEAN : \E ac \in RequestedLists :
        /\ (~passed) => ac = None
        /\ request' = [name |-> name, passed |-> passed, active_constraints |-> ac]
        /\ IF passed
           THEN /\ pc' = "done"
                /\ result' = Raised("TypeError")
                /\ UNCHANGED <<solver, active_constraints, constraints>>
           ELSE IF name \notin SolverFactory_solvers
           THEN /\ pc' = "done"
                /\ result' = Raised("ValueError")
                /\ UNCHANGED <<solver, active_constraints, constraints>>
           ELSE /\ pc' = "built"
                /\ solver' = name
                /\ active_constraints' = None
                /\ constraints' = RegisterConstraints(None)
                /\ UNCHANGED result
    /\ UNCHANGED <<problem, backend_raised, search, tabu_list, calls, model_rows, io>>

\* ------------------------------------------------------------------------
\* ZThreeSolver (solvers/zthree.py)
\* ------------------------------------------------------------------------
\* exam_room holds number_of_rooms variables: indexing it with an exam id
\* >= number_of_rooms raises IndexError
exam_room_len == number_of_rooms

\* the encoders that index exam_room[e] for every exam (room_conflicts: for
\* every exam of a pair, so only when there are two exams)
ZThreeApplyRaises ==
    /\ number_of_exams > exam_room_len
    /\ \/ Has("single_assignment")
       \/ Has("room_capacity")
       \/ (Has("room_conflicts") /\ number_of_exams >= 2)

\* solve() states its rows (and, for ortools, gurobi and scip, new variables)
\* on the object __init__ made, and nothing ever removes them.  Counted for a
\* call in which every encoder ran; ZThreeSolver with no registered constraint
\* states nothing.
RowsStated ==
    CASE solver = "z3" -> constraints # <<>> /\ ~ZThreeApplyRaises
      [] solver \in {"ortools", "gurobi", "cbc", "scip"} -> TRUE
      [] OTHER -> FALSE

\* solve() ends: it returned a value, or an exception left it
Finish(res, raisedInside) ==
    /\ pc' = "done"
    /\ result' = res
    /\ backend_raised' = raisedInside
    /\ calls' = calls + 1
    /\ model_rows' = IF RowsStated THEN model_rows + 1 ELSE model_rows
    /\ UNCHANGED <<problem, solver, active_constraints, constraints, request, search,
                   tabu_list, io>>

InBounds == Valuations(Rooms, Slots)

MinSpan(F) ==
    LET spans == {Span(a) : a \in F}
        best == CHOOSE x \in spans : \A y \in spans : x <= y
    IN  {a \in F : Span(a) = best}

\* Int variables are unbounded (only an assertion bounds them); one value
\* below and one above the range stand for the out-of-range integers
ZThreeDomain == Valuations((-1)..number_of_rooms, (-1)..number_of_slots)

ZThreeSat(a) == \A i \in DOMAIN constraints : apply_z3(constraints[i], a)

\* a variable that occurs in no assertion has no value in the model, and
\* model[v].as_long() raises AttributeError
RoomMentioned(e) ==
    \/ Has("single_assignment")
    \/ Has("room_capacity")
    \/ (Has("room_conflicts") /\ number_of_exams >= 2)
TimeMentioned(e) ==
    \/ Has("single_assignment")
    \/ Has("max_exams_per_slot")
    \/ (Has("room_conflicts") /\ number_of_exams >= 2)
    \/ (Has("student_spacing") /\ \E p \in SharedPairs : e = p[1] \/ e = p[2])
ZThreeExtractRaises ==
    \/ number_of_exams > exam_room_len
    \/ \E e \in Exams : ~RoomMentioned(e) \/ ~TimeMentioned(e)

ZThreeSolver_solve ==
    /\ pc = "built"
    /\ solver = "z3"
    /\ \E fault \in BOOLEAN :
        IF fault THEN Finish(Raised("Z3Exception"), TRUE)
        ELSE IF ZThreeApplyRaises THEN Finish(Raised("IndexError"), FALSE)
        ELSE IF ~(\E a \in ZThreeDomain : ZThreeSat(a)) THEN Finish(ReturnedNone, FALSE)
        ELSE IF ZThreeExtractRaises
             THEN Finish(Raised(IF number_of_exams > exam_room_len
                                THEN "IndexError" ELSE "AttributeError"), FALSE)
        ELSE \E a \in ZThreeDomain : ZThreeSat(a) /\ Finish(Returned(SolutionOf(a)), FALSE)

\* ------------------------------------------------------------------------
\* ORToolsSolver (solvers/ortools.py): variables are created with their
\* ranges; the objective minimises max_time - min_time
\* ------------------------------------------------------------------------
ORToolsSat(a) == \A i \in DOMAIN constraints : apply_ortools(constraints[i], a)

ORToolsSolver_solve ==
    /\ pc = "built"
    /\ solver = "ortools"
    /\ \E fault \in BOOLEAN :
        IF fault THEN Finish(Raised("RuntimeError"), TRUE)
        ELSE \E F \in {{a \in InBounds : ORToolsSat(a)}} :
                 IF F = {} THEN Finish(ReturnedNone, FALSE)
                 ELSE \E a \in MinSpan(F) : Finish(Returned(SolutionOf(a)), FALSE)

\* ------------------------------------------------------------------------
\* GurobiSolver (solvers/gurobi.py): ranged integer variables, the span
\* objective, TimeLimit 30 and MIPGap 0.1; every exception is caught
\* ------------------------------------------------------------------------
GurobiSat(a) == \A i \in DOMAIN constraints : apply_gurobi(constraints[i], a)

GurobiSolver_solve ==
    /\ pc = "built"
    /\ solver = "gurobi"
    /\ \E fault \in BOOLEAN : \E status \in {"OPTIMAL", "TIME_LIMIT"} :
        IF fault THEN Finish(ReturnedNone, TRUE)
        ELSE \E F \in {{a \in InBounds : GurobiSat(a)}} :
                 IF F = {} THEN Finish(ReturnedNone, FALSE)
                 ELSE IF status = "OPTIMAL"
                      THEN \E a \in MinSpan(F) : Finish(Returned(SolutionOf(a)), FALSE)
                      ELSE \E a \in F : Finish(Returned(SolutionOf(a)), FALSE)

\* ------------------------------------------------------------------------
\* CBCSolver (solvers/cbc.py): binary x[e,r,t]; solve() never reads
\* self.constraints, it states its own rows.  With "exactly one (r,t) per
\* exam" a valuation a stands for the x with x[e,r,t] = 1 iff a[e] = (r,t).
\* ------------------------------------------------------------------------
exam_assignment(a, e, r, t) == IF a[e].room = r /\ a[e].timeSlot = t THEN 1 ELSE 0

CBCRoomCapacity(a) ==
    \A r \in Rooms : \A t \in Slots :
        SumOver(Exams, [e \in Exams |-> exam_assignment(a, e, r, t) * get_student_count(e)])
            <= capacity(r)

CBCSameSlot(a) ==
    \A student \in Students : \A t \in Slots :
        SumOver(student_exams(student) \X Rooms,
                [p \in student_exams(student) \X Rooms |-> exam_assignment(a, p[1], p[2], t)])
            <= 1

CBCConsecutive(a) ==
    \A student \in Students : \A t \in 0..(number_of_slots - 2) :
        SumOver(student_exams(student) \X Rooms,
                [p \in student_exams(student) \X Rooms |->
                    exam_assignment(a, p[1], p[2], t) + exam_assignment(a, p[1], p[2], t + 1)])
            <= 1

CBCRows(a) == CBCRoomCapacity(a) /\ CBCSameSlot(a) /\ CBCConsecutive(a)

\* the objective: the sum over all x of t * x[e,r,t]
CBCObjective(a) == SumOver(Exams, [e \in Exams |-> a[e].timeSlot])

CBCOptimal(F) ==
    LET objs == {CBCObjective(a) : a \in F}
        best == CHOOSE x \in objs : \A y \in objs : x <= y
    IN  {a \in F : CBCObjective(a) = best}

CBCSolver_init == \E ac \in RequestedLists : Adapter_init("cbc", ac)

CBCSolver_solve ==
    /\ pc = "built"
    /\ solver = "cbc"
    /\ \E fault \in BOOLEAN :
        IF fault THEN Finish(ReturnedNone, TRUE)
        ELSE \E F \in {{a \in InBounds : CBCRows(a)}} :
                 IF F = {} THEN Finish(ReturnedNone, FALSE)
                 ELSE \E a \in CBCOptimal(F) : Finish(Returned(SolutionOf(a)), FALSE)

\* ------------------------------------------------------------------------
\* SCIPSolver (solvers/scip.py): binary x[e,r,t] as above, its own rows, no
\* objective
\* ------------------------------------------------------------------------
SCIPRoomCapacity(a) ==
    \A r \in Rooms : \A t \in Slots :
        SumOver(Exams, [e \in Exams |-> exam_assignment(a, e, r, t) * get_student_count(e)])
            <= capacity(r)

SCIPStudentConflict(a) ==
    \A student \in Students : \A t \in Slots :
        SumOver(student_exams(student) \X Rooms,
                [p \in student_exams(student) \X Rooms |-> exam_assignment(a, p[1], p[2], t)])
            <= 1

SCIPRows(a) == SCIPRoomCapacity(a) /\ SCIPStudentConflict(a)

SCIPSolver_init == \E ac \in RequestedLists : Adapter_init("scip", ac)

SCIPSolver_solve ==
    /\ pc = "built"
    /\ solver = "scip"
    /\ \E fault \in BOOLEAN :
        IF fault THEN Finish(ReturnedNone, TRUE)
        ELSE \E F \in {{a \in InBounds : SCIPRows(a)}} :
                 IF F = {} THEN Finish(ReturnedNone, FALSE)
                 ELSE \E a \in F : Finish(Returned(SolutionOf(a)), FALSE)

\* ------------------------------------------------------------------------
\* Penalty scores of the search adapters, computed over a solution list in
\* list order as the code does
\* ------------------------------------------------------------------------
RECURSIVE Insert(_, _)
Insert(x, sq) ==
    IF sq = <<>> THEN <<x>>
    ELSE IF x <= Head(sq) THEN <<x>> \o sq
    ELSE <<Head(sq)>> \o Insert(x, Tail(sq))

RECURSIVE sorted(_)
sorted(sq) == IF sq = <<>> THEN <<>> ELSE Insert(Head(sq), sorted(Tail(sq)))

\* student_slots[student], sorted: the slots of the student's exams in sol
student_slots(sol, student) ==
    LET recs == SelectSeq(sol, LAMBDA rec : student \in problem.exams[rec.examId])
    IN  sorted([i \in 1..Len(recs) |-> recs[i].timeSlot])

\* how many neighbouring entries of the sorted slots are less than 2 apart
CloseGaps(sq) == Cardinality({i \in 1..(Len(sq) - 1) : sq[i + 1] - sq[i] < 2})

StudentConflicts(sol) ==
    SumOver(Students, [student \in Students |-> CloseGaps(student_slots(sol, student))])

\* room_usage[(room, time)] just before record i is added
room_usage(sol, i) ==
    SumOver({j \in 1..(i - 1) : sol[j].room = sol[i].room /\ sol[j].timeSlot = sol[i].timeSlot},
            [j \in 1..Len(sol) |-> get_student_count(sol[j].examId)])

RecordInBounds(rec) ==
    /\ rec.room >= 0 /\ rec.room < number_of_rooms
    /\ rec.timeSlot >= 0 /\ rec.timeSlot < number_of_slots

\* ------------------------------------------------------------------------
\* TabuSearchSolver (solvers/tabusearch.py)
\* ------------------------------------------------------------------------
TabuSearchSolver_evaluate_solution(sol) ==
    SumOver(1..Len(sol),
            [i \in 1..Len(sol) |->
                LET students == get_student_count(sol[i].examId)
                    cap == capacity(sol[i].room)
                IN  IF room_usage(sol, i) + students > cap
                    THEN (room_usage(sol, i) + students - cap) * 100
                    ELSE 0])
    + 1000 * StudentConflicts(sol)

\* random.randint(0, number_of_rooms - 1), random.randint(0, number_of_slots - 1)
\* of the initial solution; the moves of _get_neighbors stay in range(...)
TabuRooms == 0..(number_of_rooms - 1)
TabuSlots == 0..(number_of_slots - 1)

TabuSearchSolver_init == \E ac \in RequestedLists : Adapter_init("tabu", ac)

\* solve(): the initial solution is random (any in-range valuation), the loop
\* moves among in-range valuations and may end at any iteration (deadline, no
\* admissible neighbour, score 0), so best_solution at the return is some
\* in-range valuation; it is returned only when its score is 0.
TabuSearchSolver_solve ==
    /\ pc = "built"
    /\ solver = "tabu"
    /\ \E fault \in BOOLEAN :
        IF fault THEN Finish(ReturnedNone, TRUE)
        ELSE \E a \in Valuations(TabuRooms, TabuSlots) :
                LET best_solution == SolutionOf(a)
                    best_score == TabuSearchSolver_evaluate_solution(best_solution)
                IN  Finish(IF best_score = 0 THEN Returned(best_solution) ELSE ReturnedNone,
                           FALSE)

\* solve() step by step, with self.tabu_list.  current_solution and
\* current_score are kept in search next to best_solution and best_score.
tabu_tenure == 10
neighbor_limit == 20

\* sorted(solution, key=examId): the records in ascending exam id
by_exam_id(sol) ==
    [i \in 1..Len(sol) |->
        sol[CHOOSE j \in 1..Len(sol) :
                Cardinality({k \in 1..Len(sol) : sol[k].examId < sol[j].examId}) = i - 1]]

\* _solution_hash: the tuple of (examId, room, timeSlot) of the records in
\* ascending exam id
TabuSearchSolver_solution_hash(sol) ==
    [k \in 1..Len(sol) |->
        LET exam == by_exam_id(sol)[k]
        IN  <<exam.examId, exam.room, exam.timeSlot>>]

\* _get_neighbors before the shuffle: every change of one room or one slot
TabuMoves(sol) ==
    ({[sol EXCEPT ![i].room = r] : i \in 1..Len(sol), r \in Rooms}
     \cup {[sol EXCEPT ![i].timeSlot = t] : i \in 1..Len(sol), t \in Slots}) \ {sol}

\* random.shuffle(neighbors); neighbors[:20]: any neighbor_limit of them
TabuSearchSolver_get_neighbors(sol) ==
    IF Cardinality(TabuMoves(sol)) <= neighbor_limit
    THEN {TabuMoves(sol)}
    ELSE {S \in SUBSET TabuMoves(sol) : Cardinality(S) = neighbor_limit}

\* the return statement of solve()
TabuReturn(best_solution, best_score) ==
    /\ pc' = "done"
    /\ result' = IF best_score = 0 THEN Returned(best_solution) ELSE ReturnedNone
    /\ backend_raised' = FALSE
    /\ calls' = calls + 1
    /\ UNCHANGED <<problem, solver, active_constraints, constraints, request,
                   model_rows, io>>

\* the random initial solution; best_solution and best_score are set to it
TabuSearchSolver_start ==
    /\ pc = "built"
    /\ solver = "tabu"
    /\ \E fault \in BOOLEAN :
        IF fault THEN Finish(ReturnedNone, TRUE)
        ELSE \E a \in Valuations(TabuRooms, TabuSlots) :
                LET current_solution == SolutionOf(a)
                    current_score == TabuSearchSolver_evaluate_solution(current_solution)
                IN  /\ search' = [current_solution |-> current_solution,
                                  current_score |-> current_score,
                                  best_solution |-> current_solution,
                                  best_score |-> current_score]
                    /\ pc' = "tabu_loop"
                    /\ UNCHANGED <<problem, solver, active_constraints, constraints,
                                   result, backend_raised, request,
                                   tabu_list, calls, model_rows, io>>

\* one pass of the while loop.  deadline: the 30 seconds have passed, which
\* they have at the latest after MaxMoves entries of the tabu list.
TabuSearchSolver_iterate ==
    /\ pc = "tabu_loop"
    /\ solver = "tabu"
    /\ \E deadline \in BOOLEAN :
        IF deadline \/ Len(tabu_list) >= MaxMoves
        THEN /\ TabuReturn(search.best_solution, search.best_score)
             /\ UNCHANGED <<search, tabu_list>>
        ELSE \E neighbors \in TabuSearchSolver_get_neighbors(search.current_solution) :
             \E admitted \in {{n \in neighbors :
                    \A i \in DOMAIN tabu_list :
                        tabu_list[i] # TabuSearchSolver_solution_hash(n)}} :
                IF admitted = {}
                THEN /\ TabuReturn(search.best_solution, search.best_score)
                     /\ UNCHANGED <<search, tabu_list>>
                ELSE \E best_neighbor \in admitted :
                     LET best_neighbor_score ==
                             TabuSearchSolver_evaluate_solution(best_neighbor)
                         improves == best_neighbor_score < search.best_score
                         best_solution == IF improves THEN best_neighbor
                                          ELSE search.best_solution
                         best_score == IF improves THEN best_neighbor_score
                                       ELSE search.best_score
                         appended == Append(tabu_list,
                                            TabuSearchSolver_solution_hash(best_neighbor))
                     IN  /\ \A n \in admitted :
                                best_neighbor_score <= TabuSearchSolver_evaluate_solution(n)
                         /\ search' = [current_solution |-> best_neighbor,
                                       current_score |-> best_neighbor_score,
                                       best_solution |-> best_solution,
                                       best_score |-> best_score]
                         /\ tabu_list' = IF Len(appended) > tabu_tenure
                                         THEN Tail(appended) ELSE appended
                         /\ IF best_score = 0
                            THEN TabuReturn(best_solution, best_score)
                            ELSE /\ pc' = "tabu_loop"
                                 /\ UNCHANGED <<problem, solver, active_constraints,
                                                constraints, result, backend_raised,
                                                request, calls, model_rows, io>>

\* solve() is called again on the adapter whose solve() has ended
Adapter_solve_again ==
    /\ pc = "done"
    /\ calls >= 1
    /\ calls < MaxCalls
    /\ pc' = "built"
    /\ result' = Pending
    /\ backend_raised' = FALSE
    /\ UNCHANGED <<problem, solver, active_constraints, constraints, request, search,
                   tabu_list, calls, model_rows, io>>

\* ------------------------------------------------------------------------
\* DEAPSolver (solvers/deap.py): the chromosome interleaves (room, slot) per
\* exam: gene 2e is exam e's room, gene 2e + 1 its slot (0-based)
\* ------------------------------------------------------------------------
IndividualOf(a) ==
    [g \in 1..(2 * number_of_exams) |->
        IF g % 2 = 1 THEN a[(g - 1) \div 2].room ELSE a[(g - 1) \div 2].timeSlot]

\* for i in range(0, len(ind), 2): examId i // 2, room ind[i], timeSlot ind[i+1]
DEAPSolutionOf(ind) ==
    [k \in 1..(Len(ind) \div 2) |->
        [examId |-> (2 * (k - 1)) \div 2, room |-> ind[2 * k - 1], timeSlot |-> ind[2 * k]]]

DEAPSolver_evaluate_individual(ind) ==
    LET sol == DEAPSolutionOf(ind)
    IN  SumOver(1..Len(sol),
                [i \in 1..Len(sol) |->
                    IF room_usage(sol, i) + get_student_count(sol[i].examId)
                            > capacity(sol[i].room)
                    THEN 1000 ELSE 0])
        + 1000 * StudentConflicts(sol)

\* toolbox attr_room / attr_time, also the draws of _mutate_individual
attr_room == 0..(number_of_rooms - 1)
attr_time == 0..(number_of_slots - 1)

DEAPSolver_init == \E ac \in RequestedLists : Adapter_init("deap", ac)

\* solve(): individuals are created, mutated and recombined gene by gene
\* within the attribute ranges, so the best individual of the final
\* population is some in-range chromosome; it is returned when its fitness
\* is 0.  The evaluator hands DEAP a bare number where the library takes a
\* tuple: when the library refuses it the exception is caught in solve().
DEAPSolver_solve ==
    /\ pc = "built"
    /\ solver = "deap"
    /\ \E fault \in BOOLEAN :
        IF fault THEN Finish(ReturnedNone, TRUE)
        ELSE \E a \in Valuations(attr_room, attr_time) :
                LET best_ind == IndividualOf(a)
                    fitness == DEAPSolver_evaluate_individual(best_ind)
                IN  Finish(IF fitness = 0 THEN Returned(DEAPSolutionOf(best_ind))
                           ELSE ReturnedNone, FALSE)

\* ------------------------------------------------------------------------
\* LocalSearchSolver (solvers/localsearch.py)
\* ------------------------------------------------------------------------
\* sorted(range(E), key=student count, reverse=True): stable, so equal sizes
\* keep id order
RECURSIVE SortedBySize(_)
SortedBySize(S) ==
    IF S = {} THEN <<>>
    ELSE LET first == CHOOSE e \in S : \A f \in S :
                          \/ get_student_count(e) > get_student_count(f)
                          \/ (get_student_count(e) = get_student_count(f) /\ e <= f)
         IN  <<first>> \o SortedBySize(S \ {first})

sorted_exams == SortedBySize(Exams)

\* the (room, slot) the greedy construction picks for exam_id, given the
\* records placed so far; (0, 0) when no cell passes the two capacity tests
GreedyCell(sol, exam_id) ==
    LET exam_size == get_student_count(exam_id)
        used(r, t) ==
            SumOver({j \in 1..Len(sol) : sol[j].room = r /\ sol[j].timeSlot = t},
                    [j \in 1..Len(sol) |-> get_student_count(sol[j].examId)])
        slots_of(student) ==
            {sol[j].timeSlot : j \in {k \in 1..Len(sol) : student \in problem.exams[sol[k].examId]}}
        conflicts(t) ==
            Cardinality({student \in problem.exams[exam_id] :
                            \/ t \in slots_of(student)
                            \/ (t - 1) \in slots_of(student)
                            \/ (t + 1) \in slots_of(student)})
        cells == {c \in Rooms \X Slots :
                    /\ capacity(c[1]) >= exam_size
                    /\ used(c[1], c[2]) + exam_size <= capacity(c[1])}
    IN  IF cells = {} THEN <<0, 0>>
        ELSE CHOOSE c \in cells : \A d \in cells :
                \/ conflicts(c[2]) < conflicts(d[2])
                \/ /\ conflicts(c[2]) = conflicts(d[2])
                   /\ (c[1] < d[1] \/ (c[1] = d[1] /\ c[2] <= d[2]))

RECURSIVE GreedyFrom(_, _)
GreedyFrom(sol, k) ==
    IF k > Len(sorted_exams) THEN sol
    ELSE LET exam_id == sorted_exams[k]
             cell == GreedyCell(sol, exam_id)
         IN  GreedyFrom(Append(sol, [examId |-> exam_id, room |-> cell[1], timeSlot |-> cell[2]]),
                        k + 1)

LocalSearchSolver_generate_initial_solution == GreedyFrom(<<>>, 1)

LocalSearchSolver_evaluate_solution(sol) ==
    IF sol = <<>> THEN inf
    ELSE IF \E i \in 1..Len(sol) : ~RecordInBounds(sol[i]) THEN inf
    ELSE SumOver(1..Len(sol),
                 [i \in 1..Len(sol) |->
                     LET students == get_student_count(sol[i].examId)
                         cap == capacity(sol[i].room)
                     IN  IF room_usage(sol, i) + students > cap
                         THEN (room_usage(sol, i) + students - cap) * 1000
                         ELSE 0])
         + 5000 * StudentConflicts(sol)

\* _check_exam_conflicts for the record at position i
LocalSearchSolver_check_exam_conflicts(sol, i) ==
    LET room == sol[i].room
        time == sol[i].timeSlot
        usage == SumOver({j \in 1..Len(sol) : sol[j].room = room /\ sol[j].timeSlot = time},
                         [j \in 1..Len(sol) |-> get_student_count(sol[j].examId)])
        common(j) == problem.exams[sol[i].examId] \cap problem.exams[sol[j].examId] # {}
        other(j) ==
            IF sol[j].examId = sol[i].examId THEN 0
            ELSE IF sol[j].timeSlot = time THEN (IF common(j) THEN 1000 ELSE 0)
            ELSE IF Abs(sol[j].timeSlot - time) = 1 THEN (IF common(j) THEN 500 ELSE 0)
            ELSE 0
    IN  (IF usage > capacity(room) THEN 1000 ELSE 0)
        + SumOver(1..Len(sol), [j \in 1..Len(sol) |-> other(j)])

\* positions of sol ordered by conflict score, highest first, ties in list
\* order (scored: the set of <<position, score>>)
RECURSIVE ByConflicts(_)
ByConflicts(scored) ==
    IF scored = {} THEN <<>>
    ELSE LET first == CHOOSE p \in scored : \A q \in scored :
                          p[2] > q[2] \/ (p[2] = q[2] /\ p[1] <= q[1])
         IN  <<first[1]>> \o ByConflicts(scored \ {first})

exam_scores(sol) ==
    {<<i, LocalSearchSolver_check_exam_conflicts(sol, i)>> : i \in 1..Len(sol)}

focus_count == 5

problematic_exams(sol) == SubSeq(ByConflicts(exam_scores(sol)), 1,
                                 IF Len(sol) < focus_count THEN Len(sol) ELSE focus_count)

RECURSIVE Flatten(_)
Flatten(seqs) == IF seqs = <<>> THEN <<>> ELSE Head(seqs) \o Flatten(Tail(seqs))

\* ascending sequence of the members of a set of integers
RECURSIVE Ascending(_)
Ascending(S) ==
    IF S = {} THEN <<>>
    ELSE LET lo == CHOOSE x \in S : \A y \in S : x <= y
         IN  <<lo>> \o Ascending(S \ {lo})

\* the neighbours of sol, in the order the code appends them
LocalSearchSolver_get_neighbors(sol) ==
    LET moves(i) ==
            LET current_room == sol[i].room
                current_time == sol[i].timeSlot
                rs == Ascending(Rooms \ {current_room})
                ts == Ascending(Slots \ {current_time})
                room_moves == [k \in 1..Len(rs) |-> [sol EXCEPT ![i].room = rs[k]]]
                time_moves == [k \in 1..Len(ts) |-> [sol EXCEPT ![i].timeSlot = ts[k]]]
                both == IF LocalSearchSolver_check_exam_conflicts(sol, i) > 1000
                        THEN Flatten([k \in 1..Len(rs) |->
                                [m \in 1..Len(ts) |->
                                    [sol EXCEPT ![i].room = rs[k], ![i].timeSlot = ts[m]]]])
                        ELSE <<>>
            IN  room_moves \o time_moves \o both
        focus == problematic_exams(sol)
    IN  Flatten([k \in 1..Len(focus) |-> moves(focus[k])])

\* the first neighbour of least score (the scan keeps a neighbour only when
\* it is strictly better than the best so far); scored is the set of
\* <<position, score>> of the neighbours
neighbor_scores(neighbors) ==
    {<<i, LocalSearchSolver_evaluate_solution(neighbors[i])>> : i \in 1..Len(neighbors)}

BestNeighbor(scored) ==
    CHOOSE p \in scored : \A q \in scored : p[2] < q[2] \/ (p[2] = q[2] /\ p[1] <= q[1])

\* __init__(self, problem): there is no active_constraints parameter
LocalSearchSolver_init ==
    /\ pc = "new"
    /\ \E ac \in RequestedLists :
        /\ solver' = "local"
        /\ active_constraints' = ac
        /\ IF ac # None
           THEN /\ pc' = "done"
                /\ result' = Raised("TypeError")
           ELSE /\ pc' = "built"
                /\ result' = result
    /\ UNCHANGED <<problem, constraints, backend_raised, request, search,
                   tabu_list, calls, model_rows, io>>

\* self.max_attempts, self.max_iterations
max_attempts == 50
max_iterations == 1000

\* the loops of solve() before it is called
NoLoop == [attempt |-> 0, iteration |-> 0, expired |-> FALSE]

SearchReturn(res, raisedInside) ==
    /\ pc' = "done"
    /\ result' = res
    /\ backend_raised' = raisedInside
    /\ calls' = calls + 1
    /\ UNCHANGED <<problem, solver, active_constraints, constraints, request,
                   tabu_list, model_rows, desk>>

\* top of "for attempt in range(max_attempts)": a fresh initial solution,
\* returned at once when its score is 0
LocalSearchSolver_begin_attempt ==
    \E fault \in BOOLEAN :
        IF fault /\ pc = "built"
        THEN SearchReturn(ReturnedNone, TRUE) /\ UNCHANGED search
        ELSE LET current_solution == LocalSearchSolver_generate_initial_solution
                 current_score == LocalSearchSolver_evaluate_solution(current_solution)
             IN  /\ search' = [search EXCEPT !.current_solution = current_solution,
                                             !.current_score = current_score]
                 /\ IF current_score = 0
                    THEN SearchReturn(Returned(current_solution), FALSE)
                    ELSE /\ pc' = "iterate"
                         /\ UNCHANGED <<problem, solver, active_constraints, constraints,
                                        result, backend_raised, request,
                                        tabu_list, calls, model_rows, desk>>

\* one pass of "for iteration in range(max_iterations)": leave says the inner
\* loop ends before this pass (the deadline has passed or the range is used
\* up), last says no attempt is left
LocalSearchSolver_pass(leave, last) ==
    \E neighbors \in {LocalSearchSolver_get_neighbors(search.current_solution)} :
    \E scored \in {neighbor_scores(neighbors)} :
    \E escape \in BOOLEAN :
        LET stuck == neighbors = <<>> \/ BestNeighbor(scored)[2] >= search.current_score
            after_loop == IF last THEN "final" ELSE "attempt"
            stay == UNCHANGED <<problem, solver, active_constraints, constraints,
                                result, backend_raised, request,
                                tabu_list, calls, model_rows, desk>>
        IN  IF leave
            THEN pc' = after_loop /\ stay /\ UNCHANGED search
            ELSE IF stuck
            THEN IF escape
                 THEN IF neighbors = <<>>
                      THEN SearchReturn(ReturnedNone, TRUE) /\ UNCHANGED search
                      ELSE \E p \in scored :
                              /\ search' = [search EXCEPT
                                    !.current_solution = neighbors[p[1]],
                                    !.current_score = p[2]]
                              /\ pc' = "iterate"
                              /\ stay
                 ELSE pc' = after_loop /\ stay /\ UNCHANGED search
            ELSE LET best_neighbor == neighbors[BestNeighbor(scored)[1]]
                     best_neighbor_score == BestNeighbor(scored)[2]
                     improves == best_neighbor_score < search.best_score
                 IN  /\ search' =
                            [current_solution |-> best_neighbor,
                             current_score |-> best_neighbor_score,
                             best_solution |-> IF improves THEN best_neighbor
                                               ELSE search.best_solution,
                             best_score |-> IF improves THEN best_neighbor_score
                                            ELSE search.best_score]
                     /\ IF best_neighbor_score = 0
                        THEN SearchReturn(Returned(best_neighbor), FALSE)
                        ELSE pc' = "iterate" /\ stay

\* the two loops with their counts left open: whether the inner loop ends and
\* whether an attempt is left are inputs
LocalSearchSolver_attempt ==
    /\ solver = "local"
    /\ pc \in {"built", "attempt"}
    /\ LocalSearchSolver_begin_attempt
    /\ UNCHANGED loop

LocalSearchSolver_iterate ==
    /\ solver = "local"
    /\ pc = "iterate"
    /\ \E leave \in BOOLEAN : \E last \in BOOLEAN : LocalSearchSolver_pass(leave, last)
    /\ UNCHANGED loop

\* the inner loop ends before a pass: "time.time() - start_time > max_time"
\* read now, or range(max_iterations) used up
LocalSearchSolver_leaves_NoDeadline(now, iteration) == iteration = max_iterations

LocalSearchSolver_leaves(now, iteration) == now \/ iteration = max_iterations

\* the clock read after a reading e: once past the deadline it stays past it
Clock(e) == IF e THEN {TRUE} ELSE BOOLEAN

\* the two loops with their counts: range(max_attempts) and
\* range(max_iterations), and the deadline read at the top of every pass
LocalSearchSolver_counted_attempt ==
    /\ solver = "local"
    /\ pc \in {"built", "attempt"}
    /\ loop.attempt < max_attempts
    /\ LocalSearchSolver_begin_attempt
    /\ \E after \in Clock(loop.expired) :
        loop' = [attempt |-> loop.attempt + 1, iteration |-> 0, expired |-> after]

LocalSearchSolver_counted_iterate ==
    /\ solver = "local"
    /\ pc = "iterate"
    /\ \E now \in Clock(loop.expired) : \E after \in Clock(now) :
        LET leave == LocalSearchSolver_leaves(now, loop.iteration)
        IN  /\ LocalSearchSolver_pass(leave, loop.attempt = max_attempts)
            /\ loop' = [loop EXCEPT !.iteration = IF leave THEN @ ELSE @ + 1,
                                    !.expired = after]

\* _validate_solution(best_solution)
LocalSearchSolver_validate_solution(sol) ==
    /\ sol # <<>>
    /\ Len(sol) = number_of_exams
    /\ \A i \in 1..Len(sol) :
        /\ RecordInBounds(sol[i])
        /\ room_usage(sol, i) + get_student_count(sol[i].examId) <= capacity(sol[i].room)
    /\ \A student \in Students : CloseGaps(student_slots(sol, student)) = 0

\* after the attempts: best_solution is returned when it validates
LocalSearchSolver_final ==
    /\ solver = "local"
    /\ pc = "final"
    /\ IF search.best_score < inf /\ LocalSearchSolver_validate_solution(search.best_solution)
       THEN SearchReturn(Returned(search.best_solution), FALSE)
       ELSE SearchReturn(ReturnedNone, FALSE)
    /\ UNCHANGED <<search, loop>>

\* ------------------------------------------------------------------------
\* ProblemFileReader.read_file (main.py).  A file is its lines: the four
\* attribute lines, the room capacity lines, the enrolment lines.  An
\* attribute line is the number it carries, or Malformed when the pattern
\* "name:\\s*(\\d+)$" does not match it; an enrolment line is <<exam, student>>,
\* Malformed in a place where "\\d+" does not match, or <<>> when blank.
\* ------------------------------------------------------------------------
Malformed == -1

\* given: a file was handed to read_file
NoFile ==
    [given |-> FALSE, students |-> Malformed, exams |-> Malformed, slots |-> Malformed,
     rooms |-> Malformed, capacities |-> <<>>, lines |-> <<>>]

\* what read_file gave: kind is "none" before the call and "raised" when an
\* exception left it ("problem" would be a SchedulingProblem returned); rooms,
\* time_slots, exams and total_students are the values read_file built
ReadOutcome(kind, error, rooms, time_slots, exams, total_students) ==
    [kind |-> kind, error |-> error, rooms |-> rooms, time_slots |-> time_slots,
     exams |-> exams, total_students |-> total_students]

NotRead == ReadOutcome("none", "", <<>>, 0, <<>>, 0)

\* the keys of exam_students in insertion order: the exam ids of the
\* enrolment lines in the order of their first appearance
RECURSIVE exam_students_keys(_, _)
exam_students_keys(lines, seen) ==
    IF lines = <<>> THEN <<>>
    ELSE IF Head(lines) = <<>> \/ Head(lines)[1] \in seen
         THEN exam_students_keys(Tail(lines), seen)
         ELSE <<Head(lines)[1]>>
              \o exam_students_keys(Tail(lines), seen \cup {Head(lines)[1]})

\* exam_students[exam_id]
exam_students(lines, exam_id) ==
    {lines[i][2] : i \in {j \in 1..Len(lines) : lines[j] # <<>> /\ lines[j][1] = exam_id}}

\* read_attribute fails on one of the lines it is given
AttributeFails(f) ==
    \/ Malformed \in {f.students, f.exams, f.slots, f.rooms}
    \/ Len(f.capacities) # f.rooms
    \/ \E r \in DOMAIN f.capacities : f.capacities[r] = Malformed

EnrolmentFails(f) ==
    \E i \in DOMAIN f.lines :
        f.lines[i] # <<>> /\ (f.lines[i][1] = Malformed \/ f.lines[i][2] = Malformed)

\* SchedulingProblem declares name: str with no default, and read_file calls
\* SchedulingProblem(rooms=, time_slots=, exams=, total_students=): the call
\* raises TypeError after its arguments were built.  num_exams is read and
\* never used.
read_file(f) ==
    IF AttributeFails(f) \/ EnrolmentFails(f)
    THEN ReadOutcome("raised", "Exception", <<>>, 0, <<>>, 0)
    ELSE LET num_students == f.students
             num_slots == f.slots
             rooms == f.capacities
             keys == exam_students_keys(f.lines, {})
             exams == [i \in 1..Len(keys) |->
                          [id |-> keys[i], students |-> exam_students(f.lines, keys[i])]]
         IN  ReadOutcome("raised", "TypeError", rooms, num_slots, exams, num_students)

ProblemFileReader_read_file ==
    /\ file.given
    /\ parsed = NotRead
    /\ parsed' = read_file(file)
    /\ UNCHANGED <<problem, pc, solver, active_constraints, constraints, result,
                   backend_raised, request, search, tabu_list, calls, model_rows,
                   file, evaluation, report, loop>>

\* ------------------------------------------------------------------------
\* The evaluators (evaluate_metric of conditioning/constraints.py).  Python
\* computes the scores in floating point; here a score is the exact fraction
\* num / den in lowest terms with den > 0.
\* ------------------------------------------------------------------------
RECURSIVE GCD(_, _)
GCD(x, y) == IF y = 0 THEN x ELSE GCD(y, x % y)

Rat(n, d) ==
    LET g == GCD(IF n < 0 THEN -n ELSE n, d)
    IN  [num |-> n \div g, den |-> d \div g]
RatLeq(x, y) == x.num * y.den <= y.num * x.den
RatEq(x, y) == x.num * y.den = y.num * x.den
RatMax(x, y) == IF RatLeq(x, y) THEN y ELSE x
RatAdd(x, y) == Rat(x.num * y.den + y.num * x.den, x.den * y.den)

RECURSIVE RatSum(_, _)
RatSum(S, f) ==
    IF S = {} THEN Rat(0, 1)
    ELSE LET x == CHOOSE y \in S : TRUE IN RatAdd(f[x], RatSum(S \ {x}, f))

\* sum(scores) / len(scores) if scores else otherwise
MeanOr(total, count, otherwise) ==
    IF count = 0 THEN Rat(otherwise, 1) ELSE Rat(total, count)

Max(x, y) == IF x >= y THEN x ELSE y

\* {exam['examId']: exam[key] for exam in solution}: the last record of an
\* exam id gives its value
exam_time_of(solution) ==
    [e \in {solution[i].examId : i \in DOMAIN solution} |->
        solution[CHOOSE i \in DOMAIN solution :
                    /\ solution[i].examId = e
                    /\ \A j \in DOMAIN solution : solution[j].examId = e => j <= i].timeSlot]
exam_room_of(solution) ==
    [e \in {solution[i].examId : i \in DOMAIN solution} |->
        solution[CHOOSE i \in DOMAIN solution :
                    /\ solution[i].examId = e
                    /\ \A j \in DOMAIN solution : solution[j].examId = e => j <= i].room]

\* a list of n items indexed with i: IndexError outside -n..n-1, and a
\* negative index counts from the end
IndexInRange(n, i) == -n <= i /\ i < n
IndexWrap(n, i) == IF i < 0 THEN i + n ELSE i

\* what evaluate_metric gave: a value, or an exception left it
Value(v) == [raised |-> FALSE, value |-> v]
Raises == [raised |-> TRUE, value |-> Rat(0, 1)]

\* exam_assignments[exam_id] += 1 runs once per key of exam_time
SingleAssignmentConstraint_metric(exam_time, exam_room) ==
    LET keys == DOMAIN exam_time
        exam_assignments == [e \in keys |-> 1]
        score == [e \in keys |-> IF exam_assignments[e] = 1 THEN 100 ELSE 0]
    IN  Value(MeanOr(SumOver(keys, score), Cardinality(keys), 0))

RoomConflictConstraint_metric(exam_time, exam_room) ==
    LET used == {<<exam_time[e], exam_room[e]>> : e \in {k \in DOMAIN exam_time :
                                                               exam_time[k] \in Slots}}
        count(c) == Cardinality({e \in DOMAIN exam_time :
                                    exam_time[e] = c[1] /\ exam_room[e] = c[2]})
        score == [c \in used |-> IF count(c) = 1 THEN 100
                                 ELSE Max(0, 100 - (count(c) - 1) * 50)]
    IN  Value(MeanOr(SumOver(used, score), Cardinality(used), 100))

\* the overcrowding score without its floor max(0, ...)
RoomCapacityConstraint_metric_NoFloor(exam_time, exam_room) ==
    LET keys == DOMAIN exam_room
        room_capacity(e) == capacity(IndexWrap(number_of_rooms, exam_room[e]))
        exam_size(e) == get_student_count(IndexWrap(number_of_exams, e))
        scored == {e \in keys : room_capacity(e) > 0}
        \* utilization = exam_size / room_capacity * 100
        score == [e \in scored |->
                    IF exam_size(e) <= room_capacity(e)
                    THEN Rat(100 * exam_size(e), room_capacity(e))
                    ELSE Rat(300 * room_capacity(e) - 200 * exam_size(e),
                             room_capacity(e))]
        total == RatSum(scored, score)
    IN  IF \E e \in keys : ~IndexInRange(number_of_rooms, exam_room[e])
        THEN Raises
        ELSE IF \E e \in scored : ~IndexInRange(number_of_exams, e)
        THEN Raises
        ELSE IF scored = {} THEN Value(Rat(0, 1))
        ELSE Value(Rat(total.num, total.den * Cardinality(scored)))

RoomCapacityConstraint_metric(exam_time, exam_room) ==
    LET keys == DOMAIN exam_room
        room_capacity(e) == capacity(IndexWrap(number_of_rooms, exam_room[e]))
        exam_size(e) == get_student_count(IndexWrap(number_of_exams, e))
        scored == {e \in keys : room_capacity(e) > 0}
        \* utilization = exam_size / room_capacity * 100
        score == [e \in scored |->
                    IF exam_size(e) <= room_capacity(e)
                    THEN Rat(100 * exam_size(e), room_capacity(e))
                    ELSE RatMax(Rat(0, 1),
                                Rat(300 * room_capacity(e) - 200 * exam_size(e),
                                    room_capacity(e)))]
        total == RatSum(scored, score)
    IN  IF \E e \in keys : ~IndexInRange(number_of_rooms, exam_room[e])
        THEN Raises
        ELSE IF \E e \in scored : ~IndexInRange(number_of_exams, e)
        THEN Raises
        ELSE IF scored = {} THEN Value(Rat(0, 1))
        ELSE Value(Rat(total.num, total.den * Cardinality(scored)))

NoConsecutiveSlotsConstraint_metric(exam_time, exam_room) ==
    LET exam_times(student) ==
            LET mine == {e \in student_exams(student) : e \in DOMAIN exam_time}
                RECURSIVE Listed(_)
                Listed(S) == IF S = {} THEN <<>>
                             ELSE LET e == CHOOSE x \in S : TRUE
                                  IN  <<exam_time[e]>> \o Listed(S \ {e})
            IN  sorted(Listed(mine))
        gap_score(gap) == IF gap = 0 THEN 0 ELSE IF gap = 1 THEN 50 ELSE 100
        gaps(student) == 1..(Len(exam_times(student)) - 1)
        total == SumOver(Students, [student \in Students |->
                    SumOver(gaps(student), [i \in gaps(student) |->
                        gap_score(exam_times(student)[i + 1] - exam_times(student)[i])])])
        count == SumOver(Students, [student \in Students |-> Cardinality(gaps(student))])
    IN  Value(MeanOr(total, count, 100))

MaxExamsPerSlotConstraint_metric(exam_time, exam_room) ==
    LET max_allowed == 3
        slots == {exam_time[e] : e \in DOMAIN exam_time}
        slot_counts == [slot \in slots |->
                            Cardinality({e \in DOMAIN exam_time : exam_time[e] = slot})]
        score == [slot \in slots |->
                    IF slot_counts[slot] <= max_allowed THEN 100
                    ELSE Max(0, 100 - (slot_counts[slot] - max_allowed) * 25)]
    IN  Value(MeanOr(SumOver(slots, score), Cardinality(slots), 100))

\* the fields of the dataclass Exam: hasattr is False for any other name, and
\* nothing in the repository sets one
ExamAttributes == {"id", "students"}
hasattr_exam(e, name) == name \in ExamAttributes
getattr_exam(e, name) == problem.exams[e][name]

MorningSessionPreferenceConstraint_metric(exam_time, exam_room) ==
    LET required == {e \in Exams : hasattr_exam(e, "morning_required")
                                     /\ getattr_exam(e, "morning_required")}
        score == [e \in required |->
                    IF exam_time[e] < number_of_slots \div 2 THEN 100 ELSE 0]
    IN  IF \E e \in required : e \notin DOMAIN exam_time THEN Raises
        ELSE Value(MeanOr(SumOver(required, score), Cardinality(required), 100))

threshold_percentage == 20

\* abs(count1 - count2) / base * 100 <= threshold_percentage
ExamGroupSizeOptimizationConstraint_are_similar_size(e1, e2) ==
    LET count1 == get_student_count(e1)
        count2 == get_student_count(e2)
        base == Max(count1, count2)
    IN  \/ base = 0
        \/ Abs(count1 - count2) * 100 <= threshold_percentage * base

ExamGroupSizeOptimizationConstraint_metric(exam_time, exam_room) ==
    LET pairs == {p \in Exams \X Exams :
                    /\ p[1] < p[2]
                    /\ ExamGroupSizeOptimizationConstraint_are_similar_size(p[1], p[2])}
        score == [p \in pairs |->
                    LET time_diff == Abs(exam_time[p[1]] - exam_time[p[2]])
                    IN  IF time_diff = 1 THEN 100
                        ELSE IF time_diff = 0 THEN 50
                        ELSE Max(0, 100 - (time_diff - 1) * 20)]
    IN  IF \E p \in pairs : p[1] \notin DOMAIN exam_time \/ p[2] \notin DOMAIN exam_time
        THEN Raises
        ELSE Value(MeanOr(SumOver(pairs, score), Cardinality(pairs), 100))

DepartmentGroupingConstraint_metric(exam_time, exam_room) ==
    LET dept_size == Max(1, number_of_exams \div 3)
        pairs == {p \in (DOMAIN exam_time) \X (DOMAIN exam_time) :
                    /\ p[1] < p[2]
                    /\ exam_time[p[1]] = exam_time[p[2]]
                    /\ exam_time[p[1]] \in Slots
                    /\ p[1] \div dept_size = p[2] \div dept_size}
        score == [p \in pairs |->
                    Max(0, 100 - Abs(exam_room[p[1]] - exam_room[p[2]]) * 25)]
    IN  Value(MeanOr(SumOver(pairs, score), Cardinality(pairs), 100))

RoomBalancingConstraint_metric(exam_time, exam_room) ==
    LET used == {exam_room[e] : e \in DOMAIN exam_room}
        usage == [r \in used |-> Cardinality({e \in DOMAIN exam_room : exam_room[e] = r})]
        n == Cardinality(DOMAIN exam_room)
        k == Cardinality(used)
        \* avg_usage = n / k, and |usage - avg_usage| = |usage * k - n| / k
        deviations == {Abs(usage[r] * k - n) : r \in used}
        max_deviation == CHOOSE d \in deviations : \A x \in deviations : x <= d
    IN  IF used = {} THEN Value(Rat(0, 1))
        ELSE Value(RatMax(Rat(0, 1), Rat(100 * k - 15 * max_deviation, k)))

\* "not problem.invigilators": the field is None or an empty list, both kept
\* as the empty list
NoInvigilators == problem.invigilators = <<>>
number_of_invigilators == IF NoInvigilators THEN 0 ELSE Len(problem.invigilators)

\* the slots of the exams whose room is taken modulo the invigilators to i
invigilator_slots(exam_time, exam_room, i) ==
    LET mine == {e \in DOMAIN exam_time : exam_room[e] % number_of_invigilators = i}
        RECURSIVE Listed(_)
        Listed(S) == IF S = {} THEN <<>>
                     ELSE LET e == CHOOSE x \in S : TRUE
                          IN  <<exam_time[e]>> \o Listed(S \ {e})
    IN  sorted(Listed(mine))

InvigilatorAssignmentConstraint_metric(exam_time, exam_room) ==
    IF NoInvigilators THEN Value(Rat(100, 1))
    ELSE LET ids == {i \in 0..(number_of_invigilators - 1) :
                        invigilator_slots(exam_time, exam_room, i) # <<>>}
             slots(i) == invigilator_slots(exam_time, exam_room, i)
             invigilator(i) == problem.invigilators[i + 1]
             workload(i) ==
                 IF Len(slots(i)) > invigilator(i).max_exams_per_day
                 THEN Max(0, 100 - (Len(slots(i)) - invigilator(i).max_exams_per_day) * 25)
                 ELSE 100
             unavailable(i) == {j \in 1..Len(slots(i)) :
                                    slots(i)[j] \in invigilator(i).unavailable_slots}
             consecutive(i) == {j \in 1..(Len(slots(i)) - 1) :
                                    slots(i)[j + 1] - slots(i)[j] = 1}
             total == SumOver(ids, [i \in ids |->
                         workload(i) + 0 * Cardinality(unavailable(i))
                         + 50 * Cardinality(consecutive(i))
                         + 100 * (Len(slots(i)) - 1 - Cardinality(consecutive(i)))])
             count == SumOver(ids, [i \in ids |->
                         1 + Cardinality(unavailable(i)) + (Len(slots(i)) - 1)])
         IN  Value(MeanOr(total, count, 100))

BreakPeriodConstraint_metric(exam_time, exam_room) ==
    LET long == {e \in Exams : hasattr_exam(e, "duration")
                                 /\ getattr_exam(e, "duration") > 120}
        scored == {e \in long : e \in DOMAIN exam_time /\ exam_time[e] < number_of_slots - 1}
        score == [e \in scored |->
                    IF \E e2 \in Exams : exam_time[e2] = exam_time[e] + 1 THEN 0 ELSE 100]
    IN  IF long # {} /\ \E e \in Exams : e \notin DOMAIN exam_time THEN Raises
        ELSE Value(MeanOr(SumOver(scored, score), Cardinality(scored), 100))

InvigilatorBreakConstraint_metric(exam_time, exam_room) ==
    IF NoInvigilators THEN Value(Rat(100, 1))
    ELSE LET ids == 0..(number_of_invigilators - 1)
             assignments(i) == invigilator_slots(exam_time, exam_room, i)
             pairs(i) == 1..(Len(assignments(i)) - 1)
             total == SumOver(ids, [i \in ids |->
                         SumOver(pairs(i), [j \in pairs(i) |->
                             IF assignments(i)[j + 1] - assignments(i)[j] = 1
                             THEN 0 ELSE 100])])
             count == SumOver(ids, [i \in ids |-> Cardinality(pairs(i))])
         IN  Value(MeanOr(total, count, 100))

\* constraint_classes[constraint_name]().evaluate_metric(problem, exam_time, exam_room)
evaluate_metric(name, exam_time, exam_room) ==
    CASE name = "single_assignment" -> SingleAssignmentConstraint_metric(exam_time, exam_room)
      [] name = "room_conflicts" -> RoomConflictConstraint_metric(exam_time, exam_room)
      [] name = "room_capacity" -> RoomCapacityConstraint_metric(exam_time, exam_room)
      [] name = "student_spacing" -> NoConsecutiveSlotsConstraint_metric(exam_time, exam_room)
      [] name = "max_exams_per_slot" -> MaxExamsPerSlotConstraint_metric(exam_time, exam_room)
      [] name = "morning_sessions" ->
            MorningSessionPreferenceConstraint_metric(exam_time, exam_room)
      [] name = "exam_group_size" ->
            ExamGroupSizeOptimizationConstraint_metric(exam_time, exam_room)
      [] name = "department_grouping" -> DepartmentGroupingConstraint_metric(exam_time, exam_room)
      [] name = "room_balancing" -> RoomBalancingConstraint_metric(exam_time, exam_room)
      [] name = "invigilator_assignment" ->
            InvigilatorAssignmentConstraint_metric(exam_time, exam_room)
      [] name = "break_period" -> BreakPeriodConstraint_metric(exam_time, exam_room)
      [] name = "invigilator_break" -> InvigilatorBreakConstraint_metric(exam_time, exam_room)

\* ------------------------------------------------------------------------
\* ComparisonController (user_interface/components/controllers.py)
\* ------------------------------------------------------------------------
constraint_classes == constraint_map

\* _evaluate_constraint: an exception inside evaluate_metric is caught and the
\* value is 0.0
evaluate_constraint(name, solution) ==
    LET outcome == evaluate_metric(name, exam_time_of(solution), exam_room_of(solution))
    IN  IF outcome.raised THEN Rat(0, 1) ELSE outcome.value

\* _calculate_metrics: one entry per active name that is a key of
\* constraint_classes, each max(v, 1.0)
calculate_metrics(solution, active) ==
    [name \in {active[i] : i \in DOMAIN active} \cap constraint_classes |->
        RatMax(evaluate_constraint(name, solution), Rat(1, 1))]

\* the weights of _determine_overall_quality, in hundredths
weights ==
    [name \in {"single_assignment", "room_conflicts", "room_capacity", "student_spacing",
               "morning_sessions", "break_period", "exam_group_size",
               "department_grouping", "room_balancing", "invigilator_break"} |->
        IF name \in {"single_assignment", "room_conflicts"} THEN 15
        ELSE IF name \in {"morning_sessions", "exam_group_size"} THEN 5
        ELSE 10]

time_weight == 15

\* _determine_overall_quality up to the two scores it compares: the weighted
\* sum over the active names that have a weight and a metric on both sides,
\* divided by the total weight and multiplied by 100, then mixed with the time
\* score when max(time1, time2) > 0
overall_score(metrics, other, time, max_time, active) ==
    LET counted == {i \in DOMAIN active :
                        /\ active[i] \in DOMAIN weights
                        /\ active[i] \in DOMAIN metrics
                        /\ active[i] \in DOMAIN other}
        total_weight == SumOver(counted, [i \in counted |-> weights[active[i]]])
        weighted == RatSum(counted,
                           [i \in counted |-> Rat(weights[active[i]] * metrics[active[i]].num,
                                                  metrics[active[i]].den)])
        score == IF total_weight > 0
                 THEN Rat(weighted.num * 100, weighted.den * total_weight)
                 ELSE Rat(0, 1)
        time_score == Rat(100 * (max_time - time), max_time)
    IN  IF max_time > 0
        THEN Rat((100 - time_weight) * score.num * time_score.den
                    + time_weight * time_score.num * score.den,
                 100 * score.den * time_score.den)
        ELSE score

\* without the time part: the normalised weighted score alone
weighted_score(metrics, other, active) == overall_score(metrics, other, 0, 0, active)

determine_overall_quality(metrics1, metrics2, time1, time2, active) ==
    LET max_time == Max(time1, time2)
    IN  <<overall_score(metrics1, metrics2, time1, max_time, active),
          overall_score(metrics2, metrics1, time2, max_time, active)>>

\* the comparison of one or two solutions of a problem: the solutions, the
\* active names, what evaluate_metric gave for each name (raw), the metrics of
\* _calculate_metrics, the solve times and the overall scores
NoEvaluation ==
    [solutions |-> <<>>, active_constraints |-> <<>>, raw |-> <<>>, metrics |-> <<>>,
     times |-> <<>>, weighted |-> <<>>, scores |-> <<>>]

\* _calculate_metrics(solution, problem, active_constraints) for the next
\* solution of the comparison
ComparisonController_calculate_metrics ==
    /\ evaluation.active_constraints # <<>>
    /\ Len(evaluation.metrics) < Len(evaluation.solutions)
    /\ LET solution == evaluation.solutions[Len(evaluation.metrics) + 1]
           active == evaluation.active_constraints
           names == {active[i] : i \in DOMAIN active} \cap constraint_classes
       IN  evaluation' =
             [evaluation EXCEPT
                !.raw = Append(@, [name \in names |->
                            evaluate_metric(name, exam_time_of(solution),
                                            exam_room_of(solution))]),
                !.metrics = Append(@, calculate_metrics(solution, active))]
    /\ UNCHANGED <<problem, pc, solver, active_constraints, constraints, result,
                   backend_raised, request, search, tabu_list, calls, model_rows,
                   file, parsed, report, loop>>

\* _determine_overall_quality(metrics1, metrics2, time1, time2, active_constraints)
ComparisonController_determine_overall_quality ==
    /\ Len(evaluation.metrics) = 2
    /\ evaluation.scores = <<>>
    /\ \E time1 \in 0..MaxTime : \E time2 \in 0..MaxTime :
        LET metrics1 == evaluation.metrics[1]
            metrics2 == evaluation.metrics[2]
            active == evaluation.active_constraints
        IN  evaluation' =
              [evaluation EXCEPT
                 !.times = <<time1, time2>>,
                 !.weighted = <<weighted_score(metrics1, metrics2, active),
                                weighted_score(metrics2, metrics1, active)>>,
                 !.scores = determine_overall_quality(metrics1, metrics2,
                                                      time1, time2, active)]
    /\ UNCHANGED <<problem, pc, solver, active_constraints, constraints, result,
                   backend_raised, request, search, tabu_list, calls, model_rows,
                   file, parsed, report, loop>>

\* ------------------------------------------------------------------------
\* SchedulerController and the comparison table
\* (user_interface/components/controllers.py, utilities/functions.py)
\* ------------------------------------------------------------------------
\* format_elapsed_time(elapsed_ms): the minutes, then the seconds to the
\* nearest whole second (ties to even) when they are at least 1, else to the
\* millisecond
format_elapsed_time(elapsed_ms) ==
    LET minutes == elapsed_ms \div 60000
        rest == elapsed_ms % 60000
        whole == rest \div 1000
        part == rest % 1000
        rounded == IF part > 500 THEN whole + 1
                   ELSE IF part < 500 THEN whole
                   ELSE whole + (whole % 2)
    IN  IF rest >= 1000
        THEN [minutes |-> minutes, seconds |-> rounded, thousandths |-> 0]
        ELSE [minutes |-> minutes, seconds |-> 0, thousandths |-> rest]

\* f"{value:.1f}": the value in tenths, to the nearest tenth (ties to even)
OneDecimal(x) ==
    LET q == (10 * x.num) \div x.den
        r == (10 * x.num) % x.den
    IN  IF 2 * r > x.den THEN q + 1
        ELSE IF 2 * r < x.den THEN q
        ELSE q + (q % 2)

\* abs(value1 - value2) < 1.0
Within1(value1, value2) ==
    Abs(value1.num * value2.den - value2.num * value1.den) < value1.den * value2.den

\* a cell of the table: its label and the numbers its text shows, in tenths
Cell(label, shown) == [label |-> label, shown |-> shown]

\* _format_comparison testing value2 - value1 < 1.0 without abs()
format_comparison_NoAbs(value1, value2) ==
    IF value2.num * value1.den - value1.num * value2.den < value1.den * value2.den
    THEN Cell("Equal", <<OneDecimal(value1)>>)
    ELSE Cell(IF ~RatLeq(value1, value2) THEN "S1" ELSE "S2",
              <<OneDecimal(value1), OneDecimal(value2)>>)

\* _format_comparison(value1, value2) with is_time = False
format_comparison(value1, value2) ==
    IF Within1(value1, value2)
    THEN Cell("Equal", <<OneDecimal(value1)>>)
    ELSE Cell(IF ~RatLeq(value1, value2) THEN "S1" ELSE "S2",
              <<OneDecimal(value1), OneDecimal(value2)>>)

\* the text _determine_overall_quality returns for its two scores
overall_quality(metrics1, metrics2, time1, time2, active) ==
    LET scores == determine_overall_quality(metrics1, metrics2, time1, time2, active)
        score1 == scores[1]
        score2 == scores[2]
    IN  IF Within1(score1, score2)
        THEN Cell("Equal", <<OneDecimal(score1)>>)
        ELSE IF ~RatLeq(score1, score2)
        THEN Cell("S1", <<OneDecimal(score1), OneDecimal(score2)>>)
        ELSE Cell("S2", <<OneDecimal(score2), OneDecimal(score1)>>)

\* a row of comparison_data: the instance, the two time cells, one cell per
\* active constraint and the overall cell
Row(kind, instance, time1, time2, cells, overall) ==
    [kind |-> kind, instance |-> instance, time1 |-> time1, time2 |-> time2,
     cells |-> cells, overall |-> overall]

Time(t) == Cell("ms", <<t>>)

\* _create_partial_sat_row(instance_name, is_solver1_sat, solve_time, num_columns)
create_partial_sat_row(instance, is_solver1_sat, solve_time, num_columns) ==
    LET solver_name == IF is_solver1_sat THEN "S1" ELSE "S2"
    IN  Row("partial", instance,
            IF is_solver1_sat THEN Time(solve_time) ELSE Cell("UNSAT", <<>>),
            IF is_solver1_sat THEN Cell("UNSAT", <<>>) ELSE Time(solve_time),
            [i \in 1..(num_columns - 4) |-> Cell(solver_name \o " only", <<>>)],
            Cell(solver_name \o " (found solution)", <<>>))

\* _create_error_row(instance_name, num_columns)
create_error_row(instance, num_columns) ==
    Row("error", instance, Cell("Error", <<>>), Cell("Error", <<>>),
        [i \in 1..(num_columns - 4) |-> Cell("N/A", <<>>)], Cell("N/A", <<>>))

\* _get_dynamic_headers: Instance, the two times, one header per active name
\* that has a display name, Overall Quality
headers(active) ==
    3 + Cardinality({i \in DOMAIN active : active[i] \in constraint_classes}) + 1

\* _create_comparison_row. With no metrics on either side it calls
\* _create_unsat_row(instance_name, n), which takes one argument: the
\* TypeError is caught by create_comparison_table, which puts an error row
create_comparison_row(instance, time1, time2, metrics1, metrics2, active) ==
    IF ~metrics1.given /\ ~metrics2.given
    THEN create_error_row(instance, headers(active))
    ELSE IF ~metrics1.given
    THEN create_partial_sat_row(instance, FALSE, time2, Len(active) + 4)
    ELSE IF ~metrics2.given
    THEN create_partial_sat_row(instance, TRUE, time1, Len(active) + 4)
    ELSE Row("compared", instance, Time(time1), Time(time2),
             [i \in DOMAIN active |->
                IF active[i] \in DOMAIN metrics1.of /\ active[i] \in DOMAIN metrics2.of
                THEN format_comparison(metrics1.of[active[i]], metrics2.of[active[i]])
                ELSE Cell("N/A", <<>>)],
             overall_quality(metrics1.of, metrics2.of, time1, time2, active))

\* "_calculate_metrics(solution, ...) if solution else None": nothing for None
\* and for the empty list
metrics_of(outcome, active) ==
    IF outcome.kind = "solution" /\ outcome.solution # <<>>
    THEN [given |-> TRUE, of |-> calculate_metrics(outcome.solution, active)]
    ELSE [given |-> FALSE, of |-> <<>>]

\* _initialize_statistics(), the keys create_comparison_table reads or writes
initialize_statistics ==
    [solver1_wins |-> 0, solver2_wins |-> 0, ties |-> 0,
     solver1_times |-> <<>>, solver2_times |-> <<>>]

\* one turn of the loop of create_comparison_table over results
table_step(table, entry, active) ==
    LET solution1 == entry.solver1
        solution2 == entry.solver2
        statistics == table.statistics
        counted ==
            [statistics EXCEPT
                !.solver1_times = IF solution1.kind = "solution"
                                  THEN Append(@, entry.time1) ELSE @,
                !.solver2_times = IF solution2.kind = "solution"
                                  THEN Append(@, entry.time2) ELSE @]
        row == create_comparison_row(entry.instance_name, entry.time1, entry.time2,
                                     metrics_of(solution1, active),
                                     metrics_of(solution2, active), active)
    IN  [statistics |-> counted, comparison_data |-> Append(table.comparison_data, row)]

RECURSIVE table_loop(_, _, _)
table_loop(table, results, active) ==
    IF results = <<>> THEN table
    ELSE table_loop(table_step(table, Head(results), active), Tail(results), active)

\* _create_summary_row(statistics, active_constraints): the wins and average
\* times of both sides, "N/A" for every active name (none is a key of
\* statistics), and the overall counts
create_summary_row(statistics, active) ==
    [kind |-> "summary", instance |-> -1,
     time1 |-> Cell("Wins", <<statistics.solver1_wins>>),
     time2 |-> Cell("Wins", <<statistics.solver2_wins>>),
     cells |-> [i \in DOMAIN active |-> Cell("N/A", <<>>)],
     overall |-> Cell("Overall", <<statistics.solver1_wins, statistics.solver2_wins,
                                   statistics.ties>>)]

\* what create_comparison_table(results, active_constraints) leaves: nothing
\* when results is empty, else the rows, the summary row and the statistics
NoTable == [statistics |-> initialize_statistics, comparison_data |-> <<>>]

create_comparison_table(results, active) ==
    IF results = <<>> THEN NoTable
    ELSE LET table == table_loop(NoTable, results, active)
         IN  [table EXCEPT !.comparison_data =
                              Append(@, create_summary_row(table.statistics, active))]

\* the run of SchedulerController over a directory
NoStatus == [shown |-> FALSE, instances |-> 0, time |-> format_elapsed_time(0)]

NoReport ==
    [given |-> FALSE, comparison_mode |-> FALSE, active_constraints |-> <<>>,
     total_files |-> 0, index |-> 0,
     comparison_results |-> <<>>, unsat_results |-> <<>>,
     total_solution_time |-> 0, elapsed |-> <<>>,
     status |-> NoStatus, scheduled |-> 0, tables |-> 0, table |-> NoTable]

\* what solver_instance.solve() may give the controller: an assignment of the
\* problem, None, or an exception
SolveOutcomes == {Returned(SolutionOf(a)) : a \in InBounds} \cup {ReturnedNone, Raised("Exception")}

\* _process_single_file for the next file of test_files. total_solution_time is
\* a parameter: "total_solution_time += time" rebinds the callee's name and the
\* caller's total stays as it was. An exception (read_file, get_solver or solve
\* raising) leaves the function at once and _process_files goes to the next file.
SchedulerController_process_single_file ==
    /\ report.given
    /\ report.index < report.total_files
    /\ \E read \in BOOLEAN :
       \E solution1 \in SolveOutcomes : \E solution2 \in SolveOutcomes :
       \E time1 \in 0..MaxElapsed : \E time2 \in 0..MaxElapsed :
        LET instance == report.index
            next == [report EXCEPT !.index = @ + 1]
            first == [next EXCEPT !.elapsed = Append(@, time1)]
            second == [first EXCEPT !.elapsed = Append(@, time2)]
        IN  report' =
              IF ~read \/ solution1.kind = "raised" THEN next
              ELSE IF ~report.comparison_mode
              THEN IF solution1.kind = "solution" /\ solution1.solution # <<>>
                   THEN [first EXCEPT !.comparison_results =
                            Append(@, [instance_name |-> instance, solver1 |-> solution1,
                                       solver2 |-> ReturnedNone,
                                       time1 |-> time1, time2 |-> 0])]
                   ELSE [first EXCEPT !.unsat_results = Append(@, instance)]
              ELSE IF solution2.kind = "raised" THEN first
              ELSE IF solution1.kind = "none" /\ solution2.kind = "none"
              THEN [second EXCEPT !.unsat_results = Append(@, instance)]
              ELSE [second EXCEPT !.comparison_results =
                        Append(@, [instance_name |-> instance, solver1 |-> solution1,
                                   solver2 |-> solution2,
                                   time1 |-> time1, time2 |-> time2])]
    /\ UNCHANGED <<problem, pc, solver, active_constraints, constraints, result,
                   backend_raised, request, search, tabu_list, calls, model_rows,
                   file, parsed, evaluation, loop>>

\* _display_results, called by _process_files after the last file: the
\* completion status, and in comparison mode two calls of
\* create_comparison_table scheduled with view.after
SchedulerController_display_results ==
    /\ report.given
    /\ report.index = report.total_files
    /\ ~report.status.shown
    /\ report' =
         [report EXCEPT
            !.status = [shown |-> TRUE,
                        instances |-> Len(report.comparison_results)
                                        + Len(report.unsat_results),
                        time |-> format_elapsed_time(report.total_solution_time)],
            !.scheduled = IF report.comparison_mode THEN 2 ELSE 0]
    /\ UNCHANGED <<problem, pc, solver, active_constraints, constraints, result,
                   backend_raised, request, search, tabu_list, calls, model_rows,
                   file, parsed, evaluation, loop>>

\* a scheduled create_comparison_table(comparison_results, active_constraints)
ComparisonController_create_comparison_table ==
    /\ report.scheduled > 0
    /\ report' =
         [report EXCEPT
            !.scheduled = @ - 1,
            !.tables = @ + 1,
            !.table = create_comparison_table(report.comparison_results,
                                              report.active_constraints)]
    /\ UNCHANGED <<problem, pc, solver, active_constraints, constraints, result,
                   backend_raised, request, search, tabu_list, calls, model_rows,
                   file, parsed, evaluation, loop>>

\* ------------------------------------------------------------------------
\* The problems explored
\* ------------------------------------------------------------------------
\* The first sharers exams all take student 0 (sharers = 1: no two exams share
\* a student), every other exam e has its own student e + 1, and exam 0 may
\* take a second student; every room has the same capacity.
ExamsOf(E, sharers, big) ==
    [e \in 0..(E - 1) |->
        (IF e < sharers THEN {0} ELSE {e + 1}) \cup (IF big /\ e = 0 THEN {1} ELSE {})]

RECURSIVE Power(_, _)
Power(b, n) == IF n = 0 THEN 1 ELSE b * Power(b, n - 1)

Problems ==
    UNION { UNION { UNION {
        { [rooms |-> [r \in 0..(R - 1) |-> c],
           time_slots |-> T,
           exams |-> ExamsOf(E, sharers, big),
           total_students |-> E + 1]
          : sharers \in 1..E, big \in BOOLEAN }
        : c \in 1..MaxCap }
        : T \in {t \in 1..MaxCells : t * R <= MaxCells /\ Power(t * R, E) <= MaxAssignments} }
        : R \in 1..MaxCells, E \in 1..MaxExams }

Init ==
    /\ problem \in Problems
    /\ pc = "new"
    /\ solver = "none"
    /\ active_constraints = None
    /\ constraints = <<>>
    /\ result = Pending
    /\ backend_raised = FALSE
    /\ request = NoRequest
    /\ search = NoSearch
    /\ tabu_list = <<>>
    /\ calls = 0
    /\ model_rows = 0
    /\ file = NoFile
    /\ parsed = NotRead
    /\ evaluation = NoEvaluation
    /\ report = NoReport
    /\ loop = NoLoop

Next ==
    \/ ZThreeSolver_init
    \/ ORToolsSolver_init
    \/ GurobiSolver_init
    \/ CBCSolver_init
    \/ SCIPSolver_init
    \/ TabuSearchSolver_init
    \/ DEAPSolver_init
    \/ LocalSearchSolver_init
    \/ SolverFactory_get_solver
    \/ ZThreeSolver_solve
    \/ ORToolsSolver_solve
    \/ GurobiSolver_solve
    \/ CBCSolver_solve
    \/ SCIPSolver_solve
    \/ TabuSearchSolver_solve
    \/ DEAPSolver_solve
    \/ LocalSearchSolver_attempt
    \/ LocalSearchSolver_iterate
    \/ LocalSearchSolver_final

Spec == Init /\ [][Next]_vars

\* ------------------------------------------------------------------------
\* solve() called up to MaxCalls times on one adapter, over the problems of at
\* most MaxAgainExams exams and MaxAgainCells (room, slot) cells
\* ------------------------------------------------------------------------
AgainProblems ==
    {p \in Problems :
        /\ Cardinality(DOMAIN p.exams) <= MaxAgainExams
        /\ Cardinality(DOMAIN p.rooms) * p.time_slots <= MaxAgainCells}

InitAgain ==
    /\ problem \in AgainProblems
    /\ pc = "new"
    /\ solver = "none"
    /\ active_constraints = None
    /\ constraints = <<>>
    /\ result = Pending
    /\ backend_raised = FALSE
    /\ request = NoRequest
    /\ search = NoSearch
    /\ tabu_list = <<>>
    /\ calls = 0
    /\ model_rows = 0
    /\ file = NoFile
    /\ parsed = NotRead
    /\ evaluation = NoEvaluation
    /\ report = NoReport
    /\ loop = NoLoop

NextAgain ==
    \/ TabuSearchSolver_init
    \/ TabuSearchSolver_start
    \/ TabuSearchSolver_iterate
    \/ LocalSearchSolver_init
    \/ LocalSearchSolver_attempt
    \/ LocalSearchSolver_iterate
    \/ LocalSearchSolver_final
    \/ ZThreeSolver_init
    \/ ZThreeSolver_solve
    \/ CBCSolver_init
    \/ CBCSolver_solve
    \/ Adapter_solve_again

SpecAgain == InitAgain /\ [][NextAgain]_vars

\* ------------------------------------------------------------------------
\* The comparison of solutions: problems whose rooms may have capacity 0 and
\* that may carry invigilators, and as solutions every in-range assignment of
\* the problem, each of them with one defect, and the empty list
\* ------------------------------------------------------------------------
\* add_default_invigilators(): one per room, 3 exams a day, always available
default_invigilators(R) ==
    [i \in 1..R |-> [id |-> i - 1, max_exams_per_day |-> 3, unavailable_slots |-> {}]]

InvigilatorLists(R) ==
    { <<>>,
      default_invigilators(R),
      <<[id |-> 0, max_exams_per_day |-> 1, unavailable_slots |-> {0}]>> }

EvalProblems ==
    UNION { UNION { UNION {
        { [rooms |-> [r \in 0..(R - 1) |-> c],
           time_slots |-> T,
           exams |-> ExamsOf(E, sharers, big),
           total_students |-> E + 1,
           invigilators |-> inv]
          : sharers \in {1, E}, big \in BOOLEAN, inv \in InvigilatorLists(R) }
        : c \in 0..MaxCap }
        : T \in {t \in 1..MaxCells : t * R <= MaxCells
                                        /\ Power(t * R, E) <= MaxEvalAssignments} }
        : R \in 1..MaxCells, E \in 1..MaxExams }

InRangeSolutions == {SolutionOf(a) : a \in InBounds}

\* one record dropped, a second record added for some exam, a room or a slot
\* put just outside its range
DefectsOf(sol) ==
    {SelectSeq(sol, LAMBDA rec : rec.examId # e) : e \in Exams}
    \cup {Append(sol, rec) : rec \in [examId : Exams, room : Rooms, timeSlot : Slots]}
    \cup {[sol EXCEPT ![i].room = r] : i \in DOMAIN sol, r \in {-1, number_of_rooms}}
    \cup {[sol EXCEPT ![i].timeSlot = t] : i \in DOMAIN sol, t \in {-1, number_of_slots}}

CandidateSolutions ==
    {<<>>} \cup InRangeSolutions \cup UNION {DefectsOf(sol) : sol \in InRangeSolutions}

\* the names of constraint_classes, as the list the controller is given
AllConstraints ==
    <<"single_assignment", "room_conflicts", "room_capacity", "student_spacing",
      "max_exams_per_slot", "morning_sessions", "exam_group_size",
      "department_grouping", "room_balancing", "invigilator_assignment",
      "break_period", "invigilator_break">>

GivenEvaluation(solutions, active) ==
    [NoEvaluation EXCEPT !.solutions = solutions, !.active_constraints = active]

InitEval ==
    /\ problem \in EvalProblems
    /\ pc = "new"
    /\ solver = "none"
    /\ active_constraints = None
    /\ constraints = <<>>
    /\ result = Pending
    /\ backend_raised = FALSE
    /\ request = NoRequest
    /\ search = NoSearch
    /\ tabu_list = <<>>
    /\ calls = 0
    /\ model_rows = 0
    /\ file = NoFile
    /\ parsed = NotRead
    /\ evaluation \in {GivenEvaluation(<<sol>>, AllConstraints) : sol \in CandidateSolutions}
    /\ report = NoReport
    /\ loop = NoLoop

NextEval == ComparisonController_calculate_metrics

SpecEval == InitEval /\ [][NextEval]_vars

\* two solutions of a small problem compared under several active lists
ActiveLists ==
    { DefaultConstraints,
      AllConstraints,
      <<"max_exams_per_slot">>,
      <<"room_capacity", "exam_clustering">> }

QualityProblems ==
    {p \in EvalProblems :
        /\ Cardinality(DOMAIN p.exams) <= MaxAgainExams
        /\ Cardinality(DOMAIN p.rooms) * p.time_slots <= MaxQualityCells
        /\ p.invigilators = <<>>}

InitQuality ==
    /\ problem \in QualityProblems
    /\ pc = "new"
    /\ solver = "none"
    /\ active_constraints = None
    /\ constraints = <<>>
    /\ result = Pending
    /\ backend_raised = FALSE
    /\ request = NoRequest
    /\ search = NoSearch
    /\ tabu_list = <<>>
    /\ calls = 0
    /\ model_rows = 0
    /\ file = NoFile
    /\ parsed = NotRead
    /\ evaluation \in {GivenEvaluation(<<sol1, sol2>>, active) :
                            sol1 \in CandidateSolutions \ {<<>>},
                            sol2 \in InRangeSolutions,
                            active \in ActiveLists}
    /\ report = NoReport
    /\ loop = NoLoop

NextQuality ==
    \/ ComparisonController_calculate_metrics
    \/ ComparisonController_determine_overall_quality

SpecQuality == InitQuality /\ [][NextQuality]_vars

\* ------------------------------------------------------------------------
\* A run of the scheduler over a directory whose files hold the same problem:
\* one exam of three students with a room of capacity 2 and a room of
\* capacity 200, or two exams with two rooms of capacity 1
\* ------------------------------------------------------------------------
CompareProblems ==
    { [rooms |-> (0 :> 2 @@ 1 :> 200), time_slots |-> 1,
       exams |-> (0 :> {0, 1, 2}), total_students |-> 3, invigilators |-> <<>>],
      [rooms |-> (0 :> 1 @@ 1 :> 1), time_slots |-> 1,
       exams |-> ExamsOf(2, 1, FALSE), total_students |-> 3, invigilators |-> <<>>] }

CompareLists == {AllConstraints, <<"room_capacity", "exam_clustering">>}

InitCompare ==
    /\ problem \in CompareProblems
    /\ pc = "new"
    /\ solver = "none"
    /\ active_constraints = None
    /\ constraints = <<>>
    /\ result = Pending
    /\ backend_raised = FALSE
    /\ request = NoRequest
    /\ search = NoSearch
    /\ tabu_list = <<>>
    /\ calls = 0
    /\ model_rows = 0
    /\ file = NoFile
    /\ parsed = NotRead
    /\ evaluation = NoEvaluation
    /\ report \in {[NoReport EXCEPT !.given = TRUE, !.comparison_mode = mode,
                                     !.active_constraints = active,
                                     !.total_files = n] :
                        mode \in BOOLEAN, active \in CompareLists, n \in 1..MaxFiles}
    /\ loop = NoLoop

NextCompare ==
    \/ SchedulerController_process_single_file
    \/ SchedulerController_display_results
    \/ ComparisonController_create_comparison_table

SpecCompare == InitCompare /\ [][NextCompare]_vars

\* ------------------------------------------------------------------------
\* LocalSearchSolver.solve with its loops counted, on problems without a
\* penalty-free assignment (one exam too large for its rooms; two exams
\* sharing a student with a single slot), so that no attempt returns early
\* ------------------------------------------------------------------------
LocalProblems ==
    { [rooms |-> (0 :> 1 @@ 1 :> 1), time_slots |-> 1,
       exams |-> (0 :> {0, 1}), total_students |-> 2],
      [rooms |-> (0 :> 1), time_slots |-> 1,
       exams |-> (0 :> {0} @@ 1 :> {0}), total_students |-> 2] }

InitLocal ==
    /\ problem \in LocalProblems
    /\ pc = "new"
    /\ solver = "none"
    /\ active_constraints = None
    /\ constraints = <<>>
    /\ result = Pending
    /\ backend_raised = FALSE
    /\ request = NoRequest
    /\ search = NoSearch
    /\ tabu_list = <<>>
    /\ calls = 0
    /\ model_rows = 0
    /\ file = NoFile
    /\ parsed = NotRead
    /\ evaluation = NoEvaluation
    /\ report = NoReport
    /\ loop = NoLoop

NextLocal ==
    \/ LocalSearchSolver_init
    \/ LocalSearchSolver_counted_attempt
    \/ LocalSearchSolver_counted_iterate
    \/ LocalSearchSolver_final

SpecLocal == InitLocal /\ [][NextLocal]_vars

\* ------------------------------------------------------------------------
\* Problems with exams of two sizes in one room: exams 0 and 1 take two
\* students each (sharing student 0 when shared), exams 2 and 3 one each
\* ------------------------------------------------------------------------
SizedExams(E, shared) ==
    [e \in 0..(E - 1) |->
        IF e = 0 THEN {0, 2}
        ELSE IF e = 1 THEN {IF shared THEN 0 ELSE 1, 3}
        ELSE {e + 2}]

SizedProblems ==
    { [rooms |-> [r \in 0..0 |-> c],
       time_slots |-> T,
       exams |-> SizedExams(E, shared),
       total_students |-> MaxExams + 2]
      : E \in 1..MaxExams, c \in 1..MaxCap, T \in 1..MaxCells, shared \in BOOLEAN }

InitCBC ==
    /\ problem \in SizedProblems
    /\ pc = "new"
    /\ solver = "none"
    /\ active_constraints = None
    /\ constraints = <<>>
    /\ result = Pending
    /\ backend_raised = FALSE
    /\ request = NoRequest
    /\ search = NoSearch
    /\ tabu_list = <<>>
    /\ calls = 0
    /\ model_rows = 0
    /\ file = NoFile
    /\ parsed = NotRead
    /\ evaluation = NoEvaluation
    /\ report = NoReport
    /\ loop = NoLoop

NextCBC == CBCSolver_init \/ CBCSolver_solve

SpecCBC == InitCBC /\ [][NextCBC]_vars

\* ------------------------------------------------------------------------
\* The files read: every attribute 0..MaxId or malformed, at most one room,
\* at most MaxLines enrolment lines over exam and student ids 0..MaxId
\* ------------------------------------------------------------------------
NoProblem == [rooms |-> <<>>, time_slots |-> 0, exams |-> <<>>, total_students |-> 0]

AttributeLines == (0..MaxId) \cup {Malformed}

EnrolmentLines ==
    {<<>>} \cup {<<e, s>> : e \in 0..MaxId, s \in 0..MaxId}
           \cup {<<Malformed, 0>>, <<0, Malformed>>}

RECURSIVE SeqsUpTo(_, _)
SeqsUpTo(S, n) ==
    IF n = 0 THEN {<<>>}
    ELSE LET shorter == SeqsUpTo(S, n - 1)
         IN  shorter \cup {Append(sq, x) : sq \in {t \in shorter : Len(t) = n - 1}, x \in S}

Files ==
    { [given |-> TRUE, students |-> ns, exams |-> ne, slots |-> nt, rooms |-> nr,
       capacities |-> caps, lines |-> lines]
      : ns \in AttributeLines, ne \in AttributeLines, nt \in {1, Malformed},
        nr \in 0..1, caps \in SeqsUpTo({1, Malformed}, 1),
        lines \in SeqsUpTo(EnrolmentLines, MaxLines) }

InitRead ==
    /\ problem = NoProblem
    /\ pc = "new"
    /\ solver = "none"
    /\ active_constraints = None
    /\ constraints = <<>>
    /\ result = Pending
    /\ backend_raised = FALSE
    /\ request = NoRequest
    /\ search = NoSearch
    /\ tabu_list = <<>>
    /\ calls = 0
    /\ model_rows = 0
    /\ file \in Files
    /\ parsed = NotRead
    /\ evaluation = NoEvaluation
    /\ report = NoReport
    /\ loop = NoLoop

NextRead == ProblemFileReader_read_file

SpecRead == InitRead /\ [][NextRead]_vars

\* ------------------------------------------------------------------------
\* The room_conflicts evaluator (RoomConflictConstraint.evaluate_metric): the
\* mean of one score per used (slot, room), kept as total and count; the
\* score is 100 exactly when total = 100 * count (or nothing is scored)
\* ------------------------------------------------------------------------
RoomConflictConstraint_evaluate_metric(sol) ==
    LET used == {<<sol[i].timeSlot, sol[i].room>> :
                    i \in {j \in 1..Len(sol) : sol[j].timeSlot \in Slots}}
        count(c) == Cardinality({i \in 1..Len(sol) :
                                    sol[i].timeSlot = c[1] /\ sol[i].room = c[2]})
        score(c) == IF count(c) = 1 THEN 100
                    ELSE IF 100 - (count(c) - 1) * 50 > 0 THEN 100 - (count(c) - 1) * 50
                    ELSE 0
    IN  [total |-> SumOver(used, [c \in used |-> score(c)]), scores |-> Cardinality(used)]

\* ------------------------------------------------------------------------
\* What the specification asks of a returned assignment
\* ------------------------------------------------------------------------
Assigned == pc = "done" /\ result.kind = "solution"
DefaultRun == active_constraints = None

OneRecordPerExam(sol) ==
    /\ Len(sol) = number_of_exams
    /\ \A e \in Exams : Cardinality({i \in 1..Len(sol) : sol[i].examId = e}) = 1

AllInBounds(sol) ==
    \A i \in 1..Len(sol) :
        /\ 0 <= sol[i].timeSlot /\ sol[i].timeSlot < number_of_slots
        /\ 0 <= sol[i].room /\ sol[i].room < number_of_rooms

CapacityHolds(sol) ==
    \A r \in Rooms : \A t \in Slots :
        SumOver({i \in 1..Len(sol) : sol[i].room = r /\ sol[i].timeSlot = t},
                [i \in 1..Len(sol) |-> get_student_count(sol[i].examId)]) <= capacity(r)

SpacingHolds(sol) ==
    \A i \in 1..Len(sol) : \A j \in 1..Len(sol) :
        (i # j /\ problem.exams[sol[i].examId] \cap problem.exams[sol[j].examId] # {})
            => Abs(sol[i].timeSlot - sol[j].timeSlot) >= 2

NoSharedCell(sol) ==
    \A i \in 1..Len(sol) : \A j \in 1..Len(sol) :
        (i # j) => ~(sol[i].timeSlot = sol[j].timeSlot /\ sol[i].room = sol[j].room)

AtMostThreePerSlot(sol) ==
    \A t \in Slots : Cardinality({i \in 1..Len(sol) : sol[i].timeSlot = t}) <= 3

Enforced(name, sol) ==
    CASE name = "single_assignment"  -> OneRecordPerExam(sol) /\ AllInBounds(sol)
      [] name = "room_conflicts"     -> NoSharedCell(sol)
      [] name = "room_capacity"      -> CapacityHolds(sol)
      [] name = "student_spacing"    -> SpacingHolds(sol)
      [] name = "max_exams_per_slot" -> AtMostThreePerSlot(sol)
      [] OTHER                       -> TRUE

ListOfCatalogNames(ac) ==
    /\ ac # None
    /\ \A i \in DOMAIN ac : ac[i] \in constraint_map

\* C1: under the default active set, an assignment returned by any adapter has
\* exactly one record for each exam id 0..E-1, and every record has
\* 0 <= timeSlot < T and 0 <= room < R.
C1_BoundsAndTotality ==
    (Assigned /\ DefaultRun) =>
        (OneRecordPerExam(result.solution) /\ AllInBounds(result.solution))

\* C1 happens: the Z3 adapter, built with the default set for at least two
\* exams, returned an assignment
C1_Witness ==
    /\ Assigned /\ DefaultRun
    /\ solver = "z3"
    /\ number_of_exams >= 2

\* C2: under the default active set, in every returned assignment the total
\* student count of the exams placed at one (room, slot) is at most the room's
\* capacity (so a problem whose exam fits no room gets no assignment).
C2_CapacityRespected ==
    (Assigned /\ DefaultRun) => CapacityHolds(result.solution)

\* C3: under the default active set, in every returned assignment two distinct
\* exams sharing a student are in slots at least 2 apart (so two such exams
\* and 2 slots get no assignment).
C3_SpacingRespected ==
    (Assigned /\ DefaultRun) => SpacingHolds(result.solution)

\* C4: under the default active set, in every returned assignment no two
\* distinct exams have the same (slot, room), and the room_conflicts evaluator
\* scores it 100.
C4_NoSharedSlotRoom ==
    (Assigned /\ DefaultRun) =>
        /\ NoSharedCell(result.solution)
        /\ LET m == RoomConflictConstraint_evaluate_metric(result.solution)
           IN  m.total = 100 * m.scores

\* C5: under the default active set, in every returned assignment each slot
\* holds at most 3 exams (so 4 exams and 1 slot get no assignment).
C5_AtMostThreeExamsPerSlot ==
    (Assigned /\ DefaultRun) => AtMostThreePerSlot(result.solution)

\* C6: for an active-constraints list L of catalog names, the constraints
\* enforced are exactly those of L: every constraint of L holds in a returned
\* assignment, and a problem is reported without assignment (no backend
\* exception) only when no in-range assignment satisfies the constraints of L.
C6_ExactlyTheListedConstraints ==
    (pc = "done" /\ ListOfCatalogNames(active_constraints)) =>
        /\ (result.kind = "solution") =>
                \A i \in DOMAIN active_constraints :
                    Enforced(active_constraints[i], result.solution)
        /\ (result.kind = "none" /\ ~backend_raised) =>
                ~(\E a \in InBounds : \A i \in DOMAIN active_constraints :
                        Enforced(active_constraints[i], SolutionOf(a)))

\* C7: an adapter constructed with an empty active-constraints list registers
\* and enforces the default five constraints, as when no list is given.
C7_EmptyListMeansDefaults ==
    (pc # "new" /\ solver \in {"z3", "ortools", "gurobi"} /\ active_constraints = <<>>) =>
        constraints = DefaultConstraints

\* C8: when the active-constraints list holds a name outside the catalog,
\* construction is rejected with an UnknownConstraint error and no solve is
\* run; the name is never silently dropped.
C8_UnknownConstraintRejected ==
    (/\ pc # "new"
     /\ solver # "none"
     /\ active_constraints # None
     /\ \E i \in DOMAIN active_constraints : active_constraints[i] \notin constraint_map) =>
        /\ pc = "done"
        /\ result.kind = "raised"
        /\ result.error = "UnknownConstraint"

\* C9: get_solver(name, problem, active_constraints) gives an adapter of the
\* named class bound to the requested active-constraint set for each of z3,
\* ortools, gurobi, cbc, deap, tabu, local and scip, and for any other name
\* fails with the unknown-solver error and constructs no adapter.
C9_FactoryKnowsEightSolvers ==
    (request # NoRequest) =>
        IF request.name \in {"z3", "ortools", "gurobi", "cbc", "deap", "tabu", "local", "scip"}
        THEN /\ solver = request.name
             /\ constraints = RegisterConstraints(request.active_constraints)
        ELSE /\ solver = "none"
             /\ result.kind = "raised"
             /\ result.error = "ValueError"

\* C10: when the backend raises during solve, the outcome is an Error value:
\* not the "no assignment" outcome of Unsat, no assignment, and no exception
\* leaving solve.
C10_BackendErrorIsReported ==
    (pc = "done" /\ backend_raised) => result.kind = "error"


\* ------------------------------------------------------------------------
\* read_file
\* ------------------------------------------------------------------------
\* read_file read every line of the file and built the fields of the problem
ProblemBuilt == parsed.kind # "none" /\ parsed.error # "Exception"

C12_Z3CapacityPerRoomAndSlot ==
    (Assigned /\ solver = "z3"
              /\ active_constraints = <<"single_assignment", "room_capacity">>)
        => CapacityHolds(result.solution)

\* ------------------------------------------------------------------------
\* CBC and the span objective
\* ------------------------------------------------------------------------
\* the valuation a solution list stands for
ValuationOf(sol) ==
    [e \in Exams |->
        LET rec == sol[CHOOSE i \in 1..Len(sol) : sol[i].examId = e]
        IN  [room |-> rec.room, timeSlot |-> rec.timeSlot]]

\* C13: whenever CBCSolver returns an assignment, its span (highest minus
\* lowest slot used) is the least span of any assignment that satisfies the
\* rows CBCSolver states
C13_CBCSpanMinimal ==
    (Assigned /\ solver = "cbc")
        => ValuationOf(result.solution) \in MinSpan({a \in InBounds : CBCRows(a)})

\* ------------------------------------------------------------------------
\* solve() called again on the same adapter
\* ------------------------------------------------------------------------
\* a later solve() call is about to run
LaterCallStarts == pc = "built" /\ calls >= 1

\* C11: a later solve() call on an adapter starts from the internal state the
\* first call started from: an empty tabu list (tabu), best_score infinite and
\* no best_solution (local), no rows or variables of an earlier call on the
\* backend object (z3, ortools, gurobi, cbc, scip)
C11_LaterSolveStartsFresh ==
    LaterCallStarts =>
        /\ solver = "tabu" => tabu_list = <<>>
        /\ solver = "local" => (search.best_score = inf /\ search.best_solution = <<>>)
        /\ solver \in {"z3", "ortools", "gurobi", "cbc", "scip"} => model_rows = 0

\* ------------------------------------------------------------------------
\* The evaluators and the comparison
\* ------------------------------------------------------------------------
\* _calculate_metrics has run on the first solution; what it was given and
\* what evaluate_metric returned for each name
Evaluated == Len(evaluation.raw) >= 1
EvaluatedSolution == evaluation.solutions[1]
RawScore(name) == evaluation.raw[1][name]

Percent(v) == RatLeq(Rat(0, 1), v) /\ RatLeq(v, Rat(100, 1))

\* C16: for every assignment with one record per exam and every room and slot
\* in range, each of the twelve evaluators returns a value between 0 and 100
C16_EvaluatorsWithinRange ==
    (Evaluated /\ OneRecordPerExam(EvaluatedSolution) /\ AllInBounds(EvaluatedSolution))
        => \A name \in constraint_map :
                ~RawScore(name).raised /\ Percent(RawScore(name).value)

\* an in-range assignment was evaluated that overcrowds a room so far that the
\* capacity score is cut off at 0, one evaluator is strictly inside the range
\* and one is at 100
C16_Witness ==
    /\ Evaluated
    /\ OneRecordPerExam(EvaluatedSolution) /\ AllInBounds(EvaluatedSolution)
    /\ \E i \in DOMAIN EvaluatedSolution :
            /\ capacity(EvaluatedSolution[i].room) > 0
            /\ 2 * get_student_count(EvaluatedSolution[i].examId)
                    >= 3 * capacity(EvaluatedSolution[i].room)
    /\ RatEq(RawScore("room_capacity").value, Rat(0, 1))
    /\ \E name \in constraint_map :
            /\ ~RatLeq(RawScore(name).value, Rat(0, 1))
            /\ ~RatLeq(Rat(100, 1), RawScore(name).value)
    /\ \E name \in constraint_map : RatEq(RawScore(name).value, Rat(100, 1))

\* C17: when nothing can be scored the score is 100: the empty assignment
\* for single_assignment and room_balancing, every exam in a room of capacity
\* 0 for room_capacity
C17_NothingToScoreIsFull ==
    Evaluated =>
        /\ EvaluatedSolution = <<>> =>
                /\ RatEq(RawScore("single_assignment").value, Rat(100, 1))
                /\ RatEq(RawScore("room_balancing").value, Rat(100, 1))
        /\ (/\ EvaluatedSolution # <<>>
            /\ AllInBounds(EvaluatedSolution)
            /\ \A i \in DOMAIN EvaluatedSolution : capacity(EvaluatedSolution[i].room) = 0)
                => RatEq(RawScore("room_capacity").value, Rat(100, 1))

\* C18: the single_assignment score is 100 exactly when every exam of the
\* problem has exactly one record in the solution, and below 100 otherwise
C18_SingleAssignmentFullIffOneRecordEach ==
    Evaluated =>
        /\ RatLeq(RawScore("single_assignment").value, Rat(100, 1))
        /\ RatEq(RawScore("single_assignment").value, Rat(100, 1))
                <=> OneRecordPerExam(EvaluatedSolution)

\* C19: for a solution with a room or slot outside its range (negative ones
\* included) the evaluation fails and produces no score
C19_OutOfRangeGivesNoScore ==
    (Evaluated /\ ~AllInBounds(EvaluatedSolution))
        => DOMAIN evaluation.metrics[1] = {}

\* C20: the weighted score S_i of each side is between 0 and 100, and so is
\* the overall score 0.85 * S_i + 0.15 * TimeScore_i, where TimeScore_i is
\* 100 * (1 - t_i / max(t1, t2))
C20_OverallScoreIsPercent ==
    evaluation.scores # <<>> =>
        \A i \in 1..2 :
            /\ Percent(evaluation.weighted[i])
            /\ Percent(evaluation.scores[i])
            /\ Max(evaluation.times[1], evaluation.times[2]) > 0 =>
                LET t == evaluation.times[i]
                    max_time == Max(evaluation.times[1], evaluation.times[2])
                    S == evaluation.weighted[i]
                IN  evaluation.scores[i] =
                        Rat(85 * S.num * max_time + 15 * 100 * (max_time - t) * S.den,
                            100 * S.den * max_time)

\* ------------------------------------------------------------------------
\* The comparison report
\* ------------------------------------------------------------------------
TableMade == report.tables > 0
Results == report.comparison_results
TableRows == report.table.comparison_data

\* the rows of the table that compare two assignments, by their place in results
ComparedRows ==
    {i \in DOMAIN Results : i \in DOMAIN TableRows /\ TableRows[i].kind = "compared"}

\* the active names that have an evaluator
Metrics ==
    {i \in DOMAIN report.active_constraints :
        report.active_constraints[i] \in constraint_classes}

\* what the evaluator of the i-th active name returns for a side's assignment
Returns(i, side) ==
    evaluate_metric(report.active_constraints[i],
                    exam_time_of(side.solution), exam_room_of(side.solution))

\* the side a cell names: "S1" in text, "S2" in text, else a tie
Winner(cell) ==
    IF cell.label \in {"S1", "S1 only", "S1 (found solution)"} THEN "S1"
    ELSE IF cell.label \in {"S2", "S2 only", "S2 (found solution)"} THEN "S2"
    ELSE IF cell.label = "Equal" THEN "Tie"
    ELSE cell.label

\* C21: for each active metric of a compared row, with s1 and s2 the scores
\* the evaluator returns for the two assignments, the cell is a tie exactly
\* when |s1 - s2| < 1.0 and otherwise names the side with the higher score
C21_PerMetricWinnerByEvaluatorScores ==
    TableMade =>
        \A i \in ComparedRows : \A m \in Metrics :
            LET s1 == Returns(m, Results[i].solver1)
                s2 == Returns(m, Results[i].solver2)
            IN  (~s1.raised /\ ~s2.raised) =>
                    Winner(TableRows[i].cells[m]) =
                        IF Within1(s1.value, s2.value) THEN "Tie"
                        ELSE IF ~RatLeq(s1.value, s2.value) THEN "S1" ELSE "S2"

\* the winners of a row: one per cell, and the overall one
Winners(row) ==
    [cells |-> [m \in DOMAIN row.cells |-> Winner(row.cells[m])],
     overall |-> Winner(row.overall)]

Mirrored(winner) ==
    IF winner = "S1" THEN "S2" ELSE IF winner = "S2" THEN "S1" ELSE winner

\* the row create_comparison_table makes for the i-th result with its two
\* sides (assignments and times) exchanged
SwappedRow(i) ==
    create_comparison_row(Results[i].instance_name, Results[i].time2, Results[i].time1,
                          metrics_of(Results[i].solver2, report.active_constraints),
                          metrics_of(Results[i].solver1, report.active_constraints),
                          report.active_constraints)

\* C22: comparing (A, B) and comparing (B, A) with the times exchanged gives
\* mirrored winners: S1 <-> S2 and Tie <-> Tie in every metric cell and in the
\* overall cell
C22_SwappedSidesMirror ==
    (TableMade /\ report.comparison_mode) =>
        \A i \in DOMAIN Results :
            LET here == Winners(TableRows[i])
                there == Winners(SwappedRow(i))
            IN  /\ DOMAIN here.cells = DOMAIN there.cells
                /\ \A m \in DOMAIN here.cells : there.cells[m] = Mirrored(here.cells[m])
                /\ there.overall = Mirrored(here.overall)

\* a compared row with a metric cell won by S1, a tied metric cell and an
\* overall winner, the two times being different
C22_Witness ==
    /\ TableMade
    /\ \E i \in ComparedRows :
        /\ Results[i].time1 # Results[i].time2
        /\ \E m \in Metrics : Winner(TableRows[i].cells[m]) = "S1"
        /\ \E m \in Metrics : Winner(TableRows[i].cells[m]) = "Tie"
        /\ Winner(TableRows[i].overall) \in {"S1", "S2"}

\* C23: when both sides returned the same assignment, every metric cell and
\* the overall cell are ties, whatever the two solve times
C23_SameAssignmentTies ==
    TableMade =>
        \A i \in ComparedRows :
            Results[i].solver1.solution = Results[i].solver2.solution =>
                /\ \A m \in Metrics : Winner(TableRows[i].cells[m]) = "Tie"
                /\ Winner(TableRows[i].overall) = "Tie"

\* the rows of the table about an instance
RowsOf(instance) ==
    {j \in DOMAIN TableRows : TableRows[j].kind # "summary"
                                /\ TableRows[j].instance = instance}

\* C24: in comparison mode, once the table is made: an instance with exactly
\* one side without assignment has a row naming the other side the winner
\* with a sentinel in every metric cell, and an instance with no assignment
\* on either side has a row marked Both UNSAT
C24_UnsatRows ==
    (TableMade /\ report.comparison_mode /\ report.scheduled = 0) =>
        /\ \A i \in DOMAIN Results :
            LET one == Results[i].solver1.kind = "none"
                two == Results[i].solver2.kind = "none"
                other == IF one THEN "S2" ELSE "S1"
            IN  (one # two) =>
                    \E j \in RowsOf(Results[i].instance_name) :
                        /\ Winner(TableRows[j].overall) = other
                        /\ \A m \in DOMAIN TableRows[j].cells :
                                TableRows[j].cells[m].label = other \o " only"
        /\ \A k \in DOMAIN report.unsat_results :
                \E j \in RowsOf(report.unsat_results[k]) :
                    TableRows[j].overall.label = "Both UNSAT"

RECURSIVE SeqSum(_)
SeqSum(sq) == IF sq = <<>> THEN 0 ELSE Head(sq) + SeqSum(Tail(sq))

RowsWon(winner) ==
    {j \in DOMAIN TableRows : TableRows[j].kind \in {"compared", "partial"}
                                /\ Winner(TableRows[j].overall) = winner}

\* C29: after create_comparison_table the counters are the row outcomes:
\* solver1_wins and solver2_wins count the rows won by S1 and by S2, ties the
\* rows reported Equal, and the three add up to the rows made without error
C29_CountersMatchRows ==
    (TableMade /\ Results # <<>>) =>
        LET statistics == report.table.statistics
        IN  /\ statistics.solver1_wins = Cardinality(RowsWon("S1"))
            /\ statistics.solver2_wins = Cardinality(RowsWon("S2"))
            /\ statistics.ties = Cardinality(RowsWon("Tie"))
            /\ statistics.solver1_wins + statistics.solver2_wins + statistics.ties
                 = Cardinality({j \in DOMAIN TableRows :
                                    TableRows[j].kind \in {"compared", "partial"}})

\* ------------------------------------------------------------------------
\* ZThreeSolver on every problem size
\* ------------------------------------------------------------------------
\* some in-range assignment satisfies the five default hard constraints
DefaultsSatisfiable ==
    \E a \in InBounds :
        \A i \in DOMAIN DefaultConstraints : Enforced(DefaultConstraints[i], SolutionOf(a))

\* C25: for every problem (E > R included) ZThreeSolver.solve with the default
\* active set ends with an assignment or with None, and with an assignment
\* whenever some assignment satisfies the five default hard constraints
C25_Z3CompletesForEveryProblem ==
    (pc = "done" /\ solver = "z3" /\ DefaultRun /\ ~backend_raised) =>
        /\ result.kind \in {"solution", "none"}
        /\ DefaultsSatisfiable => result.kind = "solution"

\* ------------------------------------------------------------------------
\* Tabu search: aspiration
\* ------------------------------------------------------------------------
\* the neighbours of the current solution that are in the tabu list and whose
\* penalty is strictly below the best penalty of the current run
Aspired ==
    {n \in TabuMoves(search.current_solution) :
        /\ \E i \in DOMAIN tabu_list : tabu_list[i] = TabuSearchSolver_solution_hash(n)
        /\ TabuSearchSolver_evaluate_solution(n) < search.best_score}

\* C26: in every iteration that moves to a neighbour, a tabu neighbour that
\* improves on the best penalty of the current run is eligible: the neighbour
\* chosen is no worse than it (all neighbours are looked at when there are at
\* most neighbor_limit of them)
C26_AspirationByStrictImprovement ==
    [][(/\ pc = "tabu_loop"
        /\ search'.current_solution # search.current_solution
        /\ Cardinality(TabuMoves(search.current_solution)) <= neighbor_limit)
            => \A n \in Aspired :
                    search'.current_score <= TabuSearchSolver_evaluate_solution(n)]_vars

\* ------------------------------------------------------------------------
\* Local search: termination
\* ------------------------------------------------------------------------
\* how far solve() has got: the attempts begun, then the passes begun in
\* the attempt, then the place in the code.  It is at most
\* 4 * (max_attempts * (max_iterations + 2) + max_iterations) + 4.
PcRank ==
    CASE pc = "new" -> 0
      [] pc = "built" -> 1
      [] pc = "iterate" -> 2
      [] pc \in {"attempt", "final"} -> 3
      [] OTHER -> 4
Progress == 4 * (loop.attempt * (max_iterations + 2) + loop.iteration) + PcRank

\* C27: LocalSearchSolver.solve terminates whatever the random choices: every
\* step takes it further in a count that is bounded, it begins at most
\* max_attempts attempts of at most max_iterations passes each, and it begins
\* no pass once the deadline has passed
C27_LocalSearchTerminates ==
    [][/\ loop'.attempt <= max_attempts
       /\ loop'.iteration <= max_iterations
       /\ loop.expired => loop'.iteration # loop.iteration + 1
       /\ Progress' > Progress]_vars

\* solve() has returned after the deadline passed in its first attempt, having
\* begun every attempt
C27_Witness ==
    /\ pc = "done"
    /\ solver = "local"
    /\ calls = 1
    /\ loop.expired
    /\ loop.attempt = max_attempts

\* ------------------------------------------------------------------------
\* C30: in the Gurobi encodings of room_conflicts and room_capacity, the rows
\* linked to an indicator exclude nothing when the indicator is 0: once a
\* Gurobi adapter is built, every assignment of in-range rooms and slots to
\* the exams satisfies every such row of every registered constraint with
\* the indicators at 0.
\* ------------------------------------------------------------------------
Registered(name) == \E i \in DOMAIN constraints : constraints[i] = name

C30_BigMRelaxedRowsExcludeNothing ==
    (pc # "new" /\ solver = "gurobi") =>
        \A a \in InBounds :
            /\ Registered("room_conflicts") =>
                    \A e1 \in Exams : \A e2 \in (e1 + 1)..(number_of_exams - 1) :
                        RoomConflictConstraint_gurobi_linked(a, e1, e2, 0, 0)
            /\ Registered("room_capacity") =>
                    \A t \in Slots : \A r \in Rooms : \A e \in Exams :
                        RoomCapacityConstraint_gurobi_linked(a, t, r, e, 0)

====
